---- MODULE Spec2Model ----
(***************************************************************************)
(* Laundry-management backend: organization-scoped, soft-deletable         *)
(* clients and collections behind role-based access control.               *)
(*                                                                         *)
(* The document store is the only shared state.  Every HTTP handler is an  *)
(* operator from (store, actor, request) to (response, store'); an action  *)
(* applies a handler to inputs drawn from small sets.  Spec runs requests  *)
(* one at a time; SpecConc splits createCollection at its await points.    *)
(***************************************************************************)
EXTENDS Integers, Sequences, FiniteSets, TLC

VARIABLES collections, clients, now, inflight, last, organizations, users,
          pending

vars ==
  <<collections, clients, now, inflight, last, organizations, users, pending>>

----------------------------------------------------------------------------
(* Bounds of the model *)

MaxCollections == 2
MaxClients == 2
MaxNow == 2
TicksPerDay == 1
MaxInflight == 2

(* Program constants *)

SeqWidth == 4

----------------------------------------------------------------------------
(* Values *)

Roles == {"user", "collector", "supervisor", "manager", "admin"}

Statuses == {"pending", "collected", "in_transit", "washing", "packing",
             "delivered", "cancelled"}

(* An ObjectId is <<kind, n>>; ids of different stores never coincide. *)
Oid(kind, n) == <<kind, n>>
NullId == Oid("null", 0)
Undefined == "undefined"
NoDate == <<>>
(* A request body or query lists the fields it carries in `has` *)

O1 == Oid("O", 1)
O2 == Oid("O", 2)
C1 == Oid("C", 1)
C2 == Oid("C", 2)
K1 == Oid("K", 1)
K2 == Oid("K", 2)
U1 == Oid("U", 1)
U2 == Oid("U", 2)
U3 == Oid("U", 3)
U4 == Oid("U", 4)
U5 == Oid("U", 5)
U6 == Oid("U", 6)

Orgs == {O1, O2}

(* A 24-digit hex string: the id it denotes and whether it is written in   *)
(* the lower-case form that ObjectId.toString() produces.                  *)
IdString(oid) == [oid |-> oid, lower |-> TRUE]
UpperHex(oid) == [oid |-> oid, lower |-> FALSE]
CastObjectId(str) == str.oid

(* HTTP response of a handler together with the store it leaves behind;   *)
(* error names what the handler threw ("" on success).                     *)
Resp(code, store) == [status |-> code, error |-> "", store |-> store]
Fail(code, error, store) ==
  [status |-> code, error |-> error, store |-> store]

(* Outcome of the checks a handler makes before it touches the store *)
Gate(code, error) == [status |-> code, error |-> error]
Pass == Gate(200, "")
Refuse(gate, store) == Fail(gate.status, gate.error, store)

----------------------------------------------------------------------------
(* Users: documents of the User collection, as the auth middleware loads   *)
(* them into req.user.  organization is optional; clients holds ObjectIds  *)
(* that assignClients stores without looking them up.                      *)

User(id, role, org, cl) ==
  [_id |-> id, role |-> role, organization |-> org, clients |-> cl]

Users ==
  { User(U1, "admin",     O1,     <<>>),
    User(U2, "manager",   O1,     <<C1, K1>>),
    User(U3, "collector", O1,     <<C1>>),
    User(U4, "collector", O1,     <<C1, C2>>),
    User(U5, "collector", O2,     <<C1>>),
    User(U6, "collector", NullId, <<C1>>) }

----------------------------------------------------------------------------
(* Role middleware *)

requireRole(allowedRoles, user) == user.role \in allowedRoles

requireManagerOrAdmin(user) == requireRole({"manager", "admin"}, user)

requireSupervisorOrAbove(user) ==
  requireRole({"supervisor", "admin", "manager"}, user)

requireCollectorOrAbove(user) ==
  requireRole({"collector", "supervisor", "admin", "manager"}, user)

(* getOrganizationId reads user.organization._id: a user without an        *)
(* organization makes it throw a TypeError, which the handler's catch      *)
(* passes to the error handler (500).                                      *)
HasOrganization(user) == user.organization # NullId
getOrganizationId(user) == user.organization

(* (req.user.clients || []).map(id => id.toString()) *)
ClientIdStrings(user) ==
  [i \in DOMAIN user.clients |-> IdString(user.clients[i])]

----------------------------------------------------------------------------
(* Collection codes: "COL" + YYYYMMDD + zero-padded sequence.  The date    *)
(* part has a fixed width, so a code is its day and its sequence digits.   *)

DayOf(t) == (t - 1) \div TicksPerDay + 1

RECURSIVE ToDigits(_)
ToDigits(n) == IF n < 10 THEN <<n>> ELSE Append(ToDigits(n \div 10), n % 10)

PadStart(d, w) ==
  IF Len(d) >= w THEN d
  ELSE [i \in 1..w |-> IF i <= w - Len(d) THEN 0 ELSE d[i - (w - Len(d))]]

SliceLast(d, w) ==
  IF Len(d) <= w THEN d ELSE SubSeq(d, Len(d) - w + 1, Len(d))

RECURSIVE ParseInt(_)
ParseInt(d) ==
  IF d = <<>> THEN 0
  ELSE 10 * ParseInt(SubSeq(d, 1, Len(d) - 1)) + d[Len(d)]

(* String order of two digit strings, as the store's sort compares them *)
StrLess(a, b) ==
  \/ /\ Len(a) < Len(b)
     /\ \A i \in 1..Len(a) : a[i] = b[i]
  \/ \E i \in 1..Len(a) :
       /\ i <= Len(b)
       /\ a[i] < b[i]
       /\ \A j \in 1..(i - 1) : a[j] = b[j]

CollectionCode(day, sequence) ==
  [day |-> day, seq |-> PadStart(ToDigits(sequence), SeqWidth)]

Range(s) == {s[i] : i \in DOMAIN s}

(* findOne({organizationId, collectionCode: /^COL<date>/})                  *)
(*   .sort({collectionCode: -1}); deleted collections are not filtered out *)
SameDayCodes_AnyOrganization(colls, org, day) ==
  {c \in Range(colls) : c.collectionCode.day = day}

SameDayCodes(colls, org, day) ==
  {c \in Range(colls) : c.organizationId = org /\ c.collectionCode.day = day}

HasLastCollection(colls, org, day) == SameDayCodes(colls, org, day) # {}

LastCollection(colls, org, day) ==
  CHOOSE c \in SameDayCodes(colls, org, day) :
    \A o \in SameDayCodes(colls, org, day) :
      ~StrLess(c.collectionCode.seq, o.collectionCode.seq)

(* The sequence the pre-save hook computes from what it reads *)
NextSequence(colls, org, day) ==
  IF HasLastCollection(colls, org, day)
    THEN ParseInt(SliceLast(LastCollection(colls, org, day).collectionCode.seq,
                            SeqWidth)) + 1
    ELSE 1

GenerateCode(colls, org, t) ==
  CollectionCode(DayOf(t), NextSequence(colls, org, DayOf(t)))

CodeIndexAllows_NoIndex(colls, doc) == TRUE

(* Unique index {collectionCode, organizationId} *)
CodeIndexAllows(colls, doc) ==
  \A c \in Range(colls) :
    ~(c.collectionCode = doc.collectionCode
      /\ c.organizationId = doc.organizationId)

NewCollectionDoc(colls, data, code, t) ==
  [_id            |-> Oid("K", Len(colls) + 1),
   collectionCode |-> code,
   organizationId |-> data.organizationId,
   clientId       |-> CastObjectId(data.clientId),
   collectedBy    |-> data.collectedBy,
   dateTime       |-> data.dateTime,
   status         |-> data.status,
   notes          |-> data.notes,
   items          |-> data.items,
   isActive       |-> TRUE,
   isDeleted      |-> FALSE,
   deletedAt      |-> NoDate,
   deletedBy      |-> NullId,
   createdAt      |-> t]

(* Collection.create with a code already computed: the insert is refused   *)
(* by the unique index (duplicate key, surfaced as 500).                   *)
InsertCollection(colls, data, code, t) ==
  LET doc == NewCollectionDoc(colls, data, code, t)
  IN  IF CodeIndexAllows(colls, doc)
        THEN Resp(201, Append(colls, doc))
        ELSE Fail(500, "E11000 duplicate key", colls)

(* collectionService.createCollection, run without interruption *)
createCollection(colls, data, t) ==
  InsertCollection(colls, data,
                   GenerateCode(colls, data.organizationId, t), t)

validateClientAccess_NoCheck(userClients, clientId) == TRUE

validateClientAccess(userClients, clientId) ==
  \E i \in DOMAIN userClients : userClients[i] = clientId

(* The data the controller hands to the service *)
CollectionData(user, body, t) ==
  [organizationId |-> getOrganizationId(user),
   clientId       |-> body.clientId,
   collectedBy    |-> user._id,
   dateTime       |-> IF "dateTime" \in body.has THEN body.dateTime ELSE t,
   status         |-> IF "status" \in body.has THEN body.status ELSE "pending",
   notes          |-> IF "notes" \in body.has THEN body.notes ELSE Undefined,
   items          |-> IF "items" \in body.has THEN body.items ELSE <<>>]

(* What createCollection's controller decides before it calls the service *)
CreateCollectionGate(user, body) ==
  IF ~requireCollectorOrAbove(user) THEN Gate(403, "Access denied")
  ELSE IF ~validateClientAccess(ClientIdStrings(user), body.clientId)
    THEN Gate(403, "not authorized for this client")
  ELSE IF ~HasOrganization(user) THEN Gate(500, "TypeError")
  ELSE Pass

(* POST /collections *)
PostCollection(colls, user, body, t) ==
  IF CreateCollectionGate(user, body) # Pass
    THEN Refuse(CreateCollectionGate(user, body), colls)
    ELSE createCollection(colls, CollectionData(user, body, t), t)

----------------------------------------------------------------------------
(* Reading, updating and deleting one collection *)

(* Collection.findOne({_id: id, organizationId, isDeleted: false}):        *)
(* the position of the document, 0 when there is none.                     *)
FindCollection(colls, id, organizationId) ==
  IF \E i \in DOMAIN colls :
       /\ colls[i]._id = CastObjectId(id)
       /\ colls[i].organizationId = organizationId
       /\ ~colls[i].isDeleted
    THEN CHOOSE i \in DOMAIN colls :
           /\ colls[i]._id = CastObjectId(id)
           /\ colls[i].organizationId = organizationId
           /\ ~colls[i].isDeleted
    ELSE 0

checkCollectionAccess_NoClient(collection, userId, userRole, userClients) ==
  \/ userRole \in {"admin", "manager"}
  \/ IdString(collection.collectedBy) = IdString(userId)

checkCollectionAccess(collection, userId, userRole, userClients) ==
  \/ userRole \in {"admin", "manager"}
  \/ IdString(collection.collectedBy) = IdString(userId)
  \/ \E i \in DOMAIN userClients :
       IdString(userClients[i]) = IdString(collection.clientId)

canDeleteCollection(collection, userId, userRole) ==
  \/ userRole \in {"admin", "manager"}
  \/ IdString(collection.collectedBy) = IdString(userId)

(* GET /collections/:id, and the check PUT /collections/:id makes first *)
CollectionAccessGate(colls, user, id) ==
  IF ~HasOrganization(user) THEN Gate(500, "TypeError")
  ELSE IF FindCollection(colls, id, getOrganizationId(user)) = 0
    THEN Gate(404, "Collection not found")
  ELSE IF ~checkCollectionAccess(
             colls[FindCollection(colls, id, getOrganizationId(user))],
             user._id, user.role, user.clients)
    THEN Gate(403, "not authorized for this collection")
  ELSE Pass

GetCollection(colls, user, id) ==
  Refuse(CollectionAccessGate(colls, user, id), colls)

ApplyPatch_AllFields(collection, updateData) ==
  [collection EXCEPT !.status = updateData.status,
                     !.notes  = updateData.notes,
                     !.items  = updateData.items]

(* The fields the service assigns: those of the patch that are not undefined *)
ApplyPatch(collection, updateData) ==
  [collection EXCEPT
     !.status = IF "status" \in updateData.has
                  THEN updateData.status ELSE @,
     !.notes  = IF "notes" \in updateData.has
                  THEN updateData.notes ELSE @,
     !.items  = IF "items" \in updateData.has
                  THEN updateData.items ELSE @]

(* collectionService.updateCollection *)
updateCollection(colls, id, organizationId, updateData) ==
  LET i == FindCollection(colls, id, organizationId)
  IN  IF i = 0 THEN Fail(404, "Collection not found", colls)
      ELSE Resp(200, [colls EXCEPT ![i] = ApplyPatch(@, updateData)])

(* PUT /collections/:id *)
PutCollection(colls, user, id, updateData) ==
  IF CollectionAccessGate(colls, user, id) # Pass
    THEN Refuse(CollectionAccessGate(colls, user, id), colls)
    ELSE updateCollection(colls, id, getOrganizationId(user), updateData)

(* CollectionSchema.methods.softDelete *)
softDelete(collection, deletedBy, t) ==
  [collection EXCEPT !.isDeleted = TRUE,
                     !.isActive  = FALSE,
                     !.deletedAt = <<t>>,
                     !.deletedBy = deletedBy]

(* collectionService.deleteCollection *)
deleteCollection(colls, id, organizationId, deletedBy, t) ==
  LET i == FindCollection(colls, id, organizationId)
  IN  IF i = 0 THEN Fail(404, "Collection not found", colls)
      ELSE Resp(200, [colls EXCEPT ![i] = softDelete(@, deletedBy, t)])

(* What DELETE /collections/:id decides before it calls the service: the   *)
(* route's role check, then the controller's checks in their order.  The   *)
(* controller tests the collection's id against the actor's client ids.    *)
DeleteCollectionGate(colls, user, id) ==
  IF ~requireManagerOrAdmin(user) THEN Gate(403, "Access denied")
  ELSE IF ~validateClientAccess(ClientIdStrings(user), id)
    THEN Gate(403, "not authorized for this client")
  ELSE IF ~HasOrganization(user) THEN Gate(500, "TypeError")
  ELSE IF FindCollection(colls, id, getOrganizationId(user)) = 0
    THEN Gate(404, "Collection not found")
  ELSE IF ~canDeleteCollection(
             colls[FindCollection(colls, id, getOrganizationId(user))],
             user._id, user.role)
    THEN Gate(403, "not authorized for this collection")
  ELSE Pass

(* DELETE /collections/:id *)
DeleteCollection(colls, user, id, t) ==
  IF DeleteCollectionGate(colls, user, id) # Pass
    THEN Refuse(DeleteCollectionGate(colls, user, id), colls)
    ELSE deleteCollection(colls, id, getOrganizationId(user), user._id, t)

----------------------------------------------------------------------------
(* Listing collections *)

(* The query getCollections builds: organization and isDeleted, each       *)
(* explicit filter that is given, and for a role other than admin/manager  *)
(* the $or of collectedBy and clientId.                                    *)
MatchesFilter_RoleScopeOnly(c, filters) ==
  /\ c.organizationId = filters.organizationId
  /\ ~c.isDeleted
  /\ IF filters.userRole \notin {"admin", "manager"}
       THEN \/ c.collectedBy = filters.userId
            \/ \E i \in DOMAIN filters.userClients :
                 c.clientId = filters.userClients[i]
       ELSE /\ ("status" \in filters.has => c.status = filters.status)
            /\ ("clientId" \in filters.has
                  => c.clientId = CastObjectId(filters.clientId))
            /\ ("collectedBy" \in filters.has
                  => c.collectedBy = CastObjectId(filters.collectedBy))
            /\ ("dateFrom" \in filters.has => c.dateTime >= filters.dateFrom)
            /\ ("dateTo" \in filters.has => c.dateTime <= filters.dateTo)

MatchesFilter(c, filters) ==
  /\ c.organizationId = filters.organizationId
  /\ ~c.isDeleted
  /\ ("status" \in filters.has => c.status = filters.status)
  /\ ("clientId" \in filters.has => c.clientId = CastObjectId(filters.clientId))
  /\ ("collectedBy" \in filters.has
        => c.collectedBy = CastObjectId(filters.collectedBy))
  /\ ("dateFrom" \in filters.has => c.dateTime >= filters.dateFrom)
  /\ ("dateTo" \in filters.has => c.dateTime <= filters.dateTo)
  /\ (filters.userRole \notin {"admin", "manager"}
        => \/ c.collectedBy = filters.userId
           \/ \E i \in DOMAIN filters.userClients :
                c.clientId = filters.userClients[i])

Matching(colls, filters) ==
  {i \in DOMAIN colls : MatchesFilter(colls[i], filters)}

(* Position of document i in .sort({dateTime: -1}); documents with equal   *)
(* dateTime keep their insertion order.                                    *)
RankByDateDesc(colls, found, i) ==
  1 + Cardinality({j \in found :
                     \/ colls[j].dateTime > colls[i].dateTime
                     \/ colls[j].dateTime = colls[i].dateTime /\ j < i})

(* .sort({dateTime: -1}).skip(skip).limit(limit) *)
PageOf(colls, found, pagination) ==
  LET skip == (pagination.page - 1) * pagination.limit
      n    == IF Cardinality(found) - skip < 0 THEN 0
              ELSE IF Cardinality(found) - skip < pagination.limit
                     THEN Cardinality(found) - skip
                     ELSE pagination.limit
  IN  [k \in 1..n |->
         colls[CHOOSE i \in found : RankByDateDesc(colls, found, i) = skip + k]]

(* collectionService.getCollections *)
getCollections(colls, filters, pagination) ==
  [collections |-> PageOf(colls, Matching(colls, filters), pagination),
   total       |-> Cardinality(Matching(colls, filters))]

(* The filters the controller builds from the query and req.user *)
CollectionFilters(user, query) ==
  [organizationId |-> getOrganizationId(user),
   has            |-> query.has,
   status         |-> query.status,
   clientId       |-> query.clientId,
   collectedBy    |-> query.collectedBy,
   dateFrom       |-> query.dateFrom,
   dateTo         |-> query.dateTo,
   userRole       |-> user.role,
   userId         |-> user._id,
   userClients    |-> user.clients]

(* GET /collections: status and, when it is 200, data and total *)
GetAllCollections(colls, user, query) ==
  IF ~HasOrganization(user)
    THEN [status |-> 500, error |-> "TypeError", data |-> <<>>, total |-> 0]
    ELSE LET r == getCollections(colls, CollectionFilters(user, query),
                                 [page |-> query.page, limit |-> query.limit])
         IN  [status |-> 200, error |-> "", data |-> r.collections,
              total |-> r.total]

----------------------------------------------------------------------------
(* Requests the actions draw from *)

Item(d, q) == [description |-> d, quantity |-> q]

CreateBody(has, clientId, dateTime, status, notes, items) ==
  [has |-> has, clientId |-> clientId, dateTime |-> dateTime,
   status |-> status, notes |-> notes, items |-> items]

CreateBodies ==
  { CreateBody({}, IdString(C1), 0, "pending", Undefined, <<>>),
    CreateBody({"dateTime", "status", "notes", "items"}, IdString(C2), 1,
               "collected", "call first", <<Item("shirt", 2)>>),
    CreateBody({}, UpperHex(C1), 0, "pending", Undefined, <<>>) }

CollectionIds == {Oid("K", n) : n \in 1..MaxCollections}

IdParams == {IdString(k) : k \in CollectionIds} \cup {UpperHex(K1)}

Patch(has, status, notes, items) ==
  [has |-> has, status |-> status, notes |-> notes, items |-> items]

Patches ==
  { Patch({"status", "notes"}, "delivered", "fragile", <<>>) }

Query(has, status, clientId, collectedBy, dateFrom, dateTo, page, limit) ==
  [has |-> has, status |-> status, clientId |-> clientId,
   collectedBy |-> collectedBy, dateFrom |-> dateFrom, dateTo |-> dateTo,
   page |-> page, limit |-> limit]

Queries ==
  { Query({}, "pending", IdString(C1), IdString(U3), 0, 0, 1, 10),
    Query({"status", "clientId"}, "pending", IdString(C1), IdString(U3),
          0, 0, 1, 10),
    Query({"collectedBy", "dateFrom", "dateTo"}, "pending", IdString(C1),
          IdString(U3), 1, 2, 1, 1) }

----------------------------------------------------------------------------
(* State *)

Response(op, r) == [op |-> op, status |-> r.status, error |-> r.error]

(* A stored user: the fields updateUser reads and writes *)
UserDoc(id, role, org, cl, firstName, isActive) ==
  [_id |-> id, role |-> role, organization |-> org, clients |-> cl,
   firstName |-> firstName, isActive |-> isActive]

(* The users that exist from the start: an admin, a manager and a          *)
(* collector of O1.                                                        *)
InitialUsers ==
  << UserDoc(U1, "admin", O1, <<>>, "ann", TRUE),
     UserDoc(U2, "manager", O1, <<C1, K1>>, "max", TRUE),
     UserDoc(U3, "collector", O1, <<C1>>, "col", TRUE) >>

Init ==
  /\ collections = <<>>
  /\ clients = <<>>
  /\ now = 1
  /\ inflight = {}
  /\ last = [op |-> "none", status |-> 0, error |-> ""]
  /\ organizations = <<>>
  /\ users = InitialUsers
  /\ pending = {}

(* Time passes between requests (every new Date() reads `now`) *)
Tick ==
  /\ now < MaxNow
  /\ now' = now + 1
  /\ UNCHANGED <<collections, clients, inflight, last,
                 organizations, users, pending>>

PostCollectionRequest(user, body) ==
  /\ Len(collections) < MaxCollections
  /\ collections' = PostCollection(collections, user, body, now).store
  /\ last' = Response("createCollection",
                      PostCollection(collections, user, body, now))
  /\ UNCHANGED <<clients, now, inflight,
                 organizations, users, pending>>

GetCollectionRequest(user, id) ==
  /\ last' = Response("getCollectionById",
                      GetCollection(collections, user, id))
  /\ UNCHANGED <<collections, clients, now, inflight,
                 organizations, users, pending>>

PutCollectionRequest(user, id, updateData) ==
  /\ collections' = PutCollection(collections, user, id, updateData).store
  /\ last' = Response("updateCollection",
                      PutCollection(collections, user, id, updateData))
  /\ UNCHANGED <<clients, now, inflight,
                 organizations, users, pending>>

DeleteCollectionRequest(user, id) ==
  /\ collections' = DeleteCollection(collections, user, id, now).store
  /\ last' = Response("deleteCollection",
                      DeleteCollection(collections, user, id, now))
  /\ UNCHANGED <<clients, now, inflight,
                 organizations, users, pending>>

GetAllCollectionsRequest(user, query) ==
  /\ last' = Response("getAllCollections",
                      GetAllCollections(collections, user, query))
  /\ UNCHANGED <<collections, clients, now, inflight,
                 organizations, users, pending>>

Next ==
  \/ Tick
  \/ \E user \in Users, body \in CreateBodies :
       PostCollectionRequest(user, body)
  \/ \E user \in Users, id \in IdParams : GetCollectionRequest(user, id)
  \/ \E user \in Users, id \in IdParams, updateData \in Patches :
       PutCollectionRequest(user, id, updateData)
  \/ \E user \in Users, id \in IdParams : DeleteCollectionRequest(user, id)
  \/ \E user \in Users, query \in Queries :
       GetAllCollectionsRequest(user, query)

Spec == Init /\ [][Next]_vars

----------------------------------------------------------------------------
(* Actors and requests the claims range over: every role, with or without  *)
(* an organization, with each of a few assigned-client lists.              *)

ClientLists == {<<>>, <<C1>>, <<C2>>, <<C1, C2>>, <<C2, K1>>}

Actors ==
  {User(id, role, org, cl) :
     id \in {U3, U4}, role \in Roles, org \in Orgs \cup {NullId},
     cl \in ClientLists}

CreatorRoles == {"collector", "supervisor", "manager", "admin"}

IsAssigned(user, clientId) ==
  \E i \in DOMAIN user.clients : IdString(user.clients[i]) = clientId

IsPrefixOf(old, new) ==
  /\ Len(old) <= Len(new)
  /\ \A i \in DOMAIN old : new[i] = old[i]

----------------------------------------------------------------------------
----------------------------------------------------------------------------
----------------------------------------------------------------------------
(* C3 as stated: DELETE /collections/:id on a non-deleted collection of    *)
(* the actor's organization soft-deletes it if and only if the actor is    *)
(* admin or manager or is the collection's collectedBy; anybody else gets  *)
(* 403 and the collection stays.                                           *)
C3_DeleteIffPrivilegedOrAuthor ==
  \A user \in Actors, i \in DOMAIN collections :
    (~collections[i].isDeleted
       /\ collections[i].organizationId = user.organization)
    => LET permitted == \/ user.role \in {"admin", "manager"}
                        \/ collections[i].collectedBy = user._id
           del == DeleteCollection(collections, user,
                                   IdString(collections[i]._id), now)
       IN  /\ permitted => del.status = 200 /\ del.store[i].isDeleted
           /\ ~permitted => del.status = 403 /\ del.store = collections

----------------------------------------------------------------------------
(* Listing requests the claims range over: each kind of explicit filter,   *)
(* alone and together, under page sizes that split the result.             *)

FilterSets ==
  { {}, {"status"}, {"clientId"}, {"collectedBy"}, {"dateFrom", "dateTo"},
    {"status", "clientId", "collectedBy", "dateFrom", "dateTo"} }

PageSizes == {1, 10}

ListingQuery(has, page, limit) ==
  Query(has, "pending", UpperHex(C1), IdString(U3), 1, 1, page, limit)

MatchesQuery(c, query) ==
  /\ ("status" \in query.has => c.status = query.status)
  /\ ("clientId" \in query.has => c.clientId = query.clientId.oid)
  /\ ("collectedBy" \in query.has => c.collectedBy = query.collectedBy.oid)
  /\ ("dateFrom" \in query.has => c.dateTime >= query.dateFrom)
  /\ ("dateTo" \in query.has => c.dateTime <= query.dateTo)

ExpectedListing(user, query) ==
  {c \in Range(collections) :
     /\ ~c.isDeleted
     /\ c.organizationId = user.organization
     /\ MatchesQuery(c, query)
     /\ \/ user.role \in {"admin", "manager"}
        \/ c.collectedBy = user._id
        \/ \E k \in DOMAIN user.clients : user.clients[k] = c.clientId}

(* C4: for an actor of an organization, GET /collections answers with the  *)
(* non-deleted collections of that organization that match every explicit  *)
(* filter and, unless the actor is admin or manager, were collected by the *)
(* actor or belong to one of the actor's assigned clients: whenever a      *)
(* listing has been answered, any listing of that store has that set's     *)
(* size as total, draws every page from it without repeating a collection, *)
(* and its pages together make up exactly that set.                        *)
C4_ListingIsExactlyTheVisibleSet ==
  last.op = "getAllCollections"
  => \A user \in Actors, has \in FilterSets, limit \in PageSizes :
       user.organization # NullId
       => LET expected == ExpectedListing(user, ListingQuery(has, 1, limit))
              page(p)  == GetAllCollections(collections, user,
                                            ListingQuery(has, p, limit))
              pages    == 1..(Len(collections) + 1)
          IN  /\ \A p \in pages :
                   LET r == page(p)
                   IN  /\ r.status = 200
                       /\ r.total = Cardinality(expected)
                       /\ Len(r.data) <= limit
                       /\ Cardinality(Range(r.data)) = Len(r.data)
                       /\ Range(r.data) \subseteq expected
                       /\ \A q \in 1..(p - 1) :
                            Range(page(q).data) \cap Range(r.data) = {}
              /\ expected \subseteq UNION {Range(page(p).data) : p \in pages}

(* Two live collections in O1, one by U3 for C1 and one for C2 by somebody *)
(* else; a listing has just answered, and collector U3 with clients [C1]   *)
(* is shown the first and not the second.                                  *)
C4_Witness ==
  /\ last.op = "getAllCollections"
  /\ last.status = 200
  /\ \E i, j \in DOMAIN collections :
       /\ collections[i].organizationId = O1
       /\ collections[j].organizationId = O1
       /\ collections[i].collectedBy = U3
       /\ collections[j].collectedBy # U3
       /\ collections[j].clientId = C2
       /\ ~collections[i].isDeleted
       /\ ~collections[j].isDeleted
       /\ LET r == GetAllCollections(collections,
                                     User(U3, "collector", O1, <<C1>>),
                                     ListingQuery({}, 1, 10))
          IN  Range(r.data) = {collections[i]}

----------------------------------------------------------------------------
----------------------------------------------------------------------------
(* Concurrent creates.  The pre('save') hook awaits its findOne, so other   *)
(* requests run between a create's read of the highest code and its        *)
(* insert.  inflight holds the creates that have read and not yet          *)
(* inserted, each with the code it computed.                               *)

RequestIds == 1..MaxInflight

(* controller, service and the hook up to the awaited findOne *)
CreateBegin(user, body, rid) ==
  /\ CreateCollectionGate(user, body) = Pass
  /\ \A req \in inflight : req.rid # rid
  /\ Len(collections) + Cardinality(inflight) < MaxCollections
  /\ inflight' = inflight \cup
       {[rid  |-> rid,
         data |-> CollectionData(user, body, now),
         code |-> GenerateCode(collections, getOrganizationId(user), now),
         t    |-> now]}
  /\ UNCHANGED <<collections, clients, now, last,
                 organizations, users, pending>>

(* the rest of the hook and the insert *)
CreateCommit(req) ==
  /\ collections' =
       InsertCollection(collections, req.data, req.code, req.t).store
  /\ last' = Response("createCollection",
                      InsertCollection(collections, req.data, req.code, req.t))
  /\ inflight' = inflight \ {req}
  /\ UNCHANGED <<clients, now,
                 organizations, users, pending>>

NextConc ==
  \/ Tick
  \/ \E user \in Users, body \in CreateBodies, rid \in RequestIds :
       CreateBegin(user, body, rid)
  \/ \E req \in inflight : CreateCommit(req)
  \/ \E user \in Users, id \in IdParams : DeleteCollectionRequest(user, id)

SpecConc == Init /\ [][NextConc]_vars

----------------------------------------------------------------------------
(* C8 as stated: concurrent creates of one organization on one day all     *)
(* succeed, and the sequences they store are 1..N without duplicate or     *)
(* gap, increasing in commit order.                                        *)
C8_ConcurrentCreatesAllSucceed ==
  /\ last.op = "createCollection" => last.status = 201
  /\ \A i \in DOMAIN collections :
       ParseInt(collections[i].collectionCode.seq) =
         1 + Cardinality({j \in 1..(i - 1) :
               /\ collections[j].organizationId = collections[i].organizationId
               /\ collections[j].collectionCode.day
                    = collections[i].collectionCode.day})

----------------------------------------------------------------------------
(* C9: no two stored collections of one organization, deleted or not,      *)
(* have the same collectionCode, whatever the interleaving of creates and  *)
(* deletes.                                                                *)
C9_CodeUniquePerOrganization ==
  \A i, j \in DOMAIN collections :
    (i # j /\ collections[i].organizationId = collections[j].organizationId)
    => collections[i].collectionCode # collections[j].collectionCode

(* Two creates of one organization read the same highest code; the first   *)
(* has inserted, the collection it stored has been soft-deleted or not,    *)
(* and the second's insert has just been refused by the unique index.      *)
C9_Witness ==
  /\ last.op = "createCollection"
  /\ last.status = 500
  /\ last.error = "E11000 duplicate key"
  /\ \E i \in DOMAIN collections :
       collections[i].collectionCode.seq = <<0, 0, 0, 1>>

----------------------------------------------------------------------------
(* Organization scope of the client routes *)

(* A property read on a user document: a path the document does not have   *)
(* (the User schema has organization, not organizationId) reads undefined. *)
Get(user, path) == IF path \in DOMAIN user THEN user[path] ELSE NullId

(* roleAuth.checkOrganizationAccess for a route with :organizationId *)
checkOrganizationAccess(user, organizationId) ==
  IF user.role = "admin" THEN Pass
  ELSE IF \/ Get(user, "organizationId") = NullId
          \/ IdString(Get(user, "organizationId")) # organizationId
    THEN Gate(403, "You can only access resources from your organization")
  ELSE Pass

(* authenticate, checkOrganizationAccess, requireRole(...) *)
ClientRouteGate(user, organizationId, roleAllowed) ==
  IF checkOrganizationAccess(user, organizationId) # Pass
    THEN checkOrganizationAccess(user, organizationId)
  ELSE IF ~roleAllowed THEN Gate(403, "Access denied")
  ELSE Pass

----------------------------------------------------------------------------
(* Clients.  Strings that a regular expression is matched against are      *)
(* sequences of characters; an absent clientCode is the empty sequence     *)
(* (the request schema does not admit an empty string).                    *)

NoCode == <<>>

Contains(s, term) ==
  \E i \in 1..(Len(s) - Len(term) + 1) : SubSeq(s, i, i + Len(term) - 1) = term

EmailIndexAllows_NoIndex(cls) == TRUE

(* Unique index {email, organizationId, isDeleted} *)
EmailIndexAllows(cls) ==
  \A i, j \in DOMAIN cls :
    (i # j /\ cls[i].email = cls[j].email
           /\ cls[i].organizationId = cls[j].organizationId)
    => cls[i].isDeleted # cls[j].isDeleted

(* Unique sparse index {clientCode, organizationId, isDeleted}: a compound  *)
(* sparse index leaves out only the documents that have none of its keys,  *)
(* so a document without clientCode is indexed with a null clientCode.     *)
ClientCodeIndexAllows(cls) ==
  \A i, j \in DOMAIN cls :
    (i # j /\ cls[i].clientCode = cls[j].clientCode
           /\ cls[i].organizationId = cls[j].organizationId)
    => cls[i].isDeleted # cls[j].isDeleted

(* A write is applied when both unique indexes accept its result *)
WriteClients(cls, written, code) ==
  IF EmailIndexAllows(written) /\ ClientCodeIndexAllows(written)
    THEN Resp(code, written)
    ELSE Fail(500, "E11000 duplicate key", cls)

NewClientDoc(cls, clientData, t) ==
  [_id            |-> Oid("C", Len(cls) + 1),
   name           |-> clientData.name,
   email          |-> clientData.email,
   clientCode     |-> IF "clientCode" \in clientData.has
                        THEN clientData.clientCode ELSE NoCode,
   clientType     |-> clientData.clientType,
   organizationId |-> CastObjectId(clientData.organizationId),
   createdBy      |-> CastObjectId(clientData.createdBy),
   isActive       |-> TRUE,
   isDeleted      |-> FALSE,
   deletedAt      |-> NoDate,
   deletedBy      |-> NullId,
   createdAt      |-> t]

(* clientService.createClient *)
createClient(cls, clientData, t) ==
  IF \E i \in DOMAIN cls :
       /\ cls[i].email = clientData.email
       /\ cls[i].organizationId = CastObjectId(clientData.organizationId)
       /\ ~cls[i].isDeleted
    THEN Fail(400, "Client with this email already exists in the organization",
              cls)
    ELSE WriteClients(cls, Append(cls, NewClientDoc(cls, clientData, t)), 201)

(* if (organizationId) query.organizationId = ...: an undefined scope      *)
(* leaves the organization out of the query.                               *)
NoScope == IdString(NullId)

InScope_AnyOrganization(doc, organizationId) == TRUE

InScope(doc, organizationId) ==
  organizationId = NoScope \/ doc.organizationId = CastObjectId(organizationId)

(* Client.findOne({_id: id, organizationId, isDeleted}): position or 0 *)
FindClient(cls, id, organizationId, isDeleted) ==
  IF \E i \in DOMAIN cls :
       /\ cls[i]._id = CastObjectId(id)
       /\ InScope(cls[i], organizationId)
       /\ cls[i].isDeleted = isDeleted
    THEN CHOOSE i \in DOMAIN cls :
           /\ cls[i]._id = CastObjectId(id)
           /\ InScope(cls[i], organizationId)
           /\ cls[i].isDeleted = isDeleted
    ELSE 0

(* clientService.getClientById *)
getClientById(cls, id, organizationId) ==
  IF FindClient(cls, id, organizationId, FALSE) = 0
    THEN [status |-> 404, error |-> "Client not found", data |-> <<>>]
    ELSE [status |-> 200, error |-> "",
          data |-> <<cls[FindClient(cls, id, organizationId, FALSE)]>>]

(* clientService.updateClient *)
updateClient(cls, id, updateData, organizationId) ==
  IF /\ "email" \in updateData.has
     /\ organizationId # NoScope
     /\ \E i \in DOMAIN cls :
          /\ cls[i].email = updateData.email
          /\ cls[i].organizationId = CastObjectId(organizationId)
          /\ cls[i]._id # CastObjectId(id)
          /\ ~cls[i].isDeleted
    THEN Fail(400, "Client with this email already exists in the organization",
              cls)
  ELSE IF FindClient(cls, id, organizationId, FALSE) = 0
    THEN Fail(404, "Client not found", cls)
  ELSE LET i == FindClient(cls, id, organizationId, FALSE)
       IN  WriteClients(cls,
             [cls EXCEPT
                ![i].email = IF "email" \in updateData.has
                               THEN updateData.email ELSE @,
                ![i].name  = IF "name" \in updateData.has
                               THEN updateData.name ELSE @,
                ![i].isActive = IF "isActive" \in updateData.has
                                  THEN updateData.isActive ELSE @],
             200)

(* clientService.deleteClient *)
deleteClient(cls, id, deletedBy, organizationId, t) ==
  IF FindClient(cls, id, organizationId, FALSE) = 0
    THEN Fail(404, "Client not found", cls)
    ELSE LET i == FindClient(cls, id, organizationId, FALSE)
         IN  WriteClients(cls,
               [cls EXCEPT ![i].isDeleted = TRUE,
                           ![i].isActive  = FALSE,
                           ![i].deletedAt = <<t>>,
                           ![i].deletedBy = CastObjectId(deletedBy)],
               200)

(* clientService.restoreClient *)
restoreClient(cls, id, organizationId) ==
  IF FindClient(cls, id, organizationId, TRUE) = 0
    THEN Fail(404, "Client not found or not deleted", cls)
    ELSE LET i == FindClient(cls, id, organizationId, TRUE)
         IN  WriteClients(cls,
               [cls EXCEPT ![i].isDeleted = FALSE,
                           ![i].isActive  = TRUE,
                           ![i].deletedAt = NoDate,
                           ![i].deletedBy = NullId],
               200)

(* The query of getAllClients: organization, isDeleted: false and the      *)
(* filters given (the regular-expression filters match by containment).    *)
MatchesClientFilters(c, organizationId, filters) ==
  /\ c.organizationId = CastObjectId(organizationId)
  /\ ~c.isDeleted
  /\ ("email" \in filters.has => Contains(c.email, filters.email))
  /\ ("clientType" \in filters.has => c.clientType = filters.clientType)
  /\ ("isActive" \in filters.has => c.isActive = filters.isActive)

(* The query of searchClients: the term is contained in one of the fields *)
MatchesSearch(c, organizationId, searchTerm) ==
  /\ c.organizationId = CastObjectId(organizationId)
  /\ ~c.isDeleted
  /\ \/ Contains(c.name, searchTerm)
     \/ Contains(c.clientCode, searchTerm)
     \/ Contains(c.email, searchTerm)

(* Position of client i in .sort({createdAt: -1}) *)
RankByCreatedDesc(cls, found, i) ==
  1 + Cardinality({j \in found :
                     \/ cls[j].createdAt > cls[i].createdAt
                     \/ cls[j].createdAt = cls[i].createdAt /\ j < i})

(* .sort({createdAt: -1}).skip(skip).limit(limit) *)
ClientPageOf(cls, found, page, limit) ==
  LET skip == (page - 1) * limit
      n    == IF Cardinality(found) - skip < 0 THEN 0
              ELSE IF Cardinality(found) - skip < limit
                     THEN Cardinality(found) - skip
                     ELSE limit
  IN  [k \in 1..n |->
         cls[CHOOSE i \in found : RankByCreatedDesc(cls, found, i) = skip + k]]

(* clientService.getAllClients *)
getAllClients(cls, organizationId, page, limit, filters) ==
  LET found == {i \in DOMAIN cls :
                  MatchesClientFilters(cls[i], organizationId, filters)}
  IN  [status |-> 200, error |-> "",
       data   |-> ClientPageOf(cls, found, page, limit),
       total  |-> Cardinality(found)]

(* clientService.searchClients *)
searchClients(cls, organizationId, searchTerm, page, limit) ==
  LET found == {i \in DOMAIN cls :
                  MatchesSearch(cls[i], organizationId, searchTerm)}
  IN  [status |-> 200, error |-> "",
       data   |-> ClientPageOf(cls, found, page, limit),
       total  |-> Cardinality(found)]

(* collectionService.getCollectionsByClient *)
getCollectionsByClient(colls, clientId, organizationId, pagination) ==
  LET found == {i \in DOMAIN colls :
                  /\ colls[i].organizationId = organizationId
                  /\ colls[i].clientId = CastObjectId(clientId)
                  /\ ~colls[i].isDeleted}
  IN  [collections |-> PageOf(colls, found, pagination),
       total       |-> Cardinality(found)]

(* collectionService.getCollectionsByStatus *)
getCollectionsByStatus(colls, status, filters, pagination) ==
  LET found == {i \in DOMAIN colls :
                  /\ colls[i].organizationId = filters.organizationId
                  /\ colls[i].status = status
                  /\ ~colls[i].isDeleted
                  /\ filters.userRole \notin {"admin", "manager"}
                       => \/ colls[i].collectedBy = filters.userId
                          \/ \E k \in DOMAIN filters.userClients :
                               colls[i].clientId = filters.userClients[k]}
  IN  [collections |-> PageOf(colls, found, pagination),
       total       |-> Cardinality(found)]

----------------------------------------------------------------------------
(* The client routes: what each answers and the store it leaves *)

SupervisorGate(user, organizationId) ==
  ClientRouteGate(user, organizationId, requireSupervisorOrAbove(user))

ManagerGate(user, organizationId) ==
  ClientRouteGate(user, organizationId, requireManagerOrAdmin(user))

NoData(gate) ==
  [status |-> gate.status, error |-> gate.error, data |-> <<>>, total |-> 0]

(* POST /organizations/:organizationId/clients; the organization stored    *)
(* is the body's.                                                          *)
PostClient(cls, user, organizationId, body, t) ==
  IF SupervisorGate(user, organizationId) # Pass
    THEN Refuse(SupervisorGate(user, organizationId), cls)
    ELSE createClient(cls, [body EXCEPT !.createdBy = IdString(user._id)], t)

(* GET /organizations/:organizationId/clients/:id *)
GetClient(cls, user, organizationId, id) ==
  IF SupervisorGate(user, organizationId) # Pass
    THEN NoData(SupervisorGate(user, organizationId))
    ELSE [status |-> getClientById(cls, id, organizationId).status,
          error  |-> getClientById(cls, id, organizationId).error,
          data   |-> getClientById(cls, id, organizationId).data,
          total  |-> Len(getClientById(cls, id, organizationId).data)]

(* PUT /organizations/:organizationId/clients/:id: the controller passes   *)
(* the actor's own id and organization to the service.                     *)
PutClient(cls, user, organizationId, id, updateData) ==
  IF SupervisorGate(user, organizationId) # Pass
    THEN Refuse(SupervisorGate(user, organizationId), cls)
    ELSE updateClient(cls, IdString(user._id), updateData,
                      IdString(user.organization))

(* DELETE /organizations/:organizationId/clients/:id *)
DeleteClient(cls, user, organizationId, id, t) ==
  IF ManagerGate(user, organizationId) # Pass
    THEN Refuse(ManagerGate(user, organizationId), cls)
    ELSE deleteClient(cls, id, IdString(user._id), organizationId, t)

(* PATCH /organizations/:organizationId/clients/:id/restore *)
RestoreClient(cls, user, organizationId, id) ==
  IF ManagerGate(user, organizationId) # Pass
    THEN Refuse(ManagerGate(user, organizationId), cls)
    ELSE restoreClient(cls, id, organizationId)

(* GET /organizations/:organizationId/clients *)
GetAllClients(cls, user, organizationId, query) ==
  IF SupervisorGate(user, organizationId) # Pass
    THEN NoData(SupervisorGate(user, organizationId))
    ELSE getAllClients(cls, organizationId, query.page, query.limit, query)

(* GET /organizations/:organizationId/clients/search *)
SearchClients(cls, user, organizationId, query) ==
  IF SupervisorGate(user, organizationId) # Pass
    THEN NoData(SupervisorGate(user, organizationId))
    ELSE searchClients(cls, organizationId, query.q, query.page, query.limit)

----------------------------------------------------------------------------
(* Client requests the actions draw from *)

EmailA == <<"a", "@", "x">>
EmailB == <<"b", "@", "x">>

ClientBody(has, name, email, clientCode, organizationId) ==
  [has |-> has, name |-> name, email |-> email, clientCode |-> clientCode,
   clientType |-> "business", organizationId |-> organizationId,
   createdBy |-> IdString(NullId)]

ClientBodies ==
  { ClientBody(has, <<"n">>, email, <<"k">>, IdString(org)) :
      has \in {{}, {"clientCode"}}, email \in {EmailA, EmailB},
      org \in Orgs }

ClientIds == {Oid("C", n) : n \in 1..MaxClients}

ClientIdParams == {IdString(c) : c \in ClientIds}

OrgParams == {IdString(o) : o \in Orgs}

ClientPatch(has, name, email, isActive) ==
  [has |-> has, name |-> name, email |-> email, isActive |-> isActive]

ClientPatches == {ClientPatch({"name", "email"}, <<"m">>, EmailB, TRUE)}

ClientQuery(has, email, clientType, isActive, q, page, limit) ==
  [has |-> has, email |-> email, clientType |-> clientType,
   isActive |-> isActive, q |-> q, page |-> page, limit |-> limit]

ClientQueries ==
  { ClientQuery({}, <<"a">>, "business", TRUE, <<"@">>, 1, 10),
    ClientQuery({"email", "clientType", "isActive"}, <<"a">>, "business",
                TRUE, <<"b">>, 1, 1) }

(* The actors of the client requests: the admin, who passes the scope      *)
(* check, and a manager and a supervisor of the organizations.             *)
ClientUsers ==
  { User(U1, "admin", O1, <<>>),
    User(U2, "manager", O1, <<C1, K1>>),
    User(U5, "supervisor", O2, <<C1>>) }

PostClientRequest(user, organizationId, body) ==
  /\ Len(clients) < MaxClients
  /\ clients' = PostClient(clients, user, organizationId, body, now).store
  /\ last' = Response("createClient",
                      PostClient(clients, user, organizationId, body, now))
  /\ UNCHANGED <<collections, now, inflight,
                 organizations, users, pending>>

GetClientRequest(user, organizationId, id) ==
  /\ last' = Response("getClientById",
                      GetClient(clients, user, organizationId, id))
  /\ UNCHANGED <<collections, clients, now, inflight,
                 organizations, users, pending>>

PutClientRequest(user, organizationId, id, updateData) ==
  /\ clients' = PutClient(clients, user, organizationId, id, updateData).store
  /\ last' = Response("updateClient",
                      PutClient(clients, user, organizationId, id, updateData))
  /\ UNCHANGED <<collections, now, inflight,
                 organizations, users, pending>>

DeleteClientRequest(user, organizationId, id) ==
  /\ clients' = DeleteClient(clients, user, organizationId, id, now).store
  /\ last' = Response("deleteClient",
                      DeleteClient(clients, user, organizationId, id, now))
  /\ UNCHANGED <<collections, now, inflight,
                 organizations, users, pending>>

RestoreClientRequest(user, organizationId, id) ==
  /\ clients' = RestoreClient(clients, user, organizationId, id).store
  /\ last' = Response("restoreClient",
                      RestoreClient(clients, user, organizationId, id))
  /\ UNCHANGED <<collections, now, inflight,
                 organizations, users, pending>>

GetAllClientsRequest(user, organizationId, query) ==
  /\ last' = Response("getAllClients",
                      GetAllClients(clients, user, organizationId, query))
  /\ UNCHANGED <<collections, clients, now, inflight,
                 organizations, users, pending>>

SearchClientsRequest(user, organizationId, query) ==
  /\ last' = Response("searchClients",
                      SearchClients(clients, user, organizationId, query))
  /\ UNCHANGED <<collections, clients, now, inflight,
                 organizations, users, pending>>

NextClients ==
  \/ Tick
  \/ \E user \in ClientUsers, o \in OrgParams, body \in ClientBodies :
       PostClientRequest(user, o, body)
  \/ \E user \in ClientUsers, o \in OrgParams, id \in ClientIdParams :
       GetClientRequest(user, o, id)
  \/ \E user \in ClientUsers, o \in OrgParams, id \in ClientIdParams,
         updateData \in ClientPatches :
       PutClientRequest(user, o, id, updateData)
  \/ \E user \in ClientUsers, o \in OrgParams, id \in ClientIdParams :
       DeleteClientRequest(user, o, id)
  \/ \E user \in ClientUsers, o \in OrgParams, id \in ClientIdParams :
       RestoreClientRequest(user, o, id)
  \/ \E user \in ClientUsers, o \in OrgParams, query \in ClientQueries :
       GetAllClientsRequest(user, o, query)
  \/ \E user \in ClientUsers, o \in OrgParams, query \in ClientQueries :
       SearchClientsRequest(user, o, query)

SpecClients == Init /\ [][NextClients]_vars

----------------------------------------------------------------------------
(* C6 as stated: checkOrganizationAccess lets a request for organization O *)
(* proceed if and only if the actor is admin or the actor's own            *)
(* organization is O, and refuses everybody else with 403, so that a       *)
(* listing of O's clients is answered to a supervisor, manager or admin    *)
(* exactly under that condition.                                           *)
C6_ScopePassesIffAdminOrOwnOrganization ==
  \A user \in Actors, o \in Orgs :
    LET gate    == checkOrganizationAccess(user, IdString(o))
        listing == GetAllClients(clients, user, IdString(o),
                                 ClientQuery({}, <<>>, "business", TRUE, <<>>,
                                             1, 10))
    IN  /\ gate = Pass <=> (user.role = "admin" \/ user.organization = o)
        /\ gate # Pass => gate.status = 403 /\ listing.status = 403
        /\ (gate = Pass /\ requireSupervisorOrAbove(user))
             => listing.status = 200

----------------------------------------------------------------------------
(* C10 as stated: createClient with email E for organization O answers a   *)
(* conflict when a non-deleted client of O has E, and otherwise (E held    *)
(* only in other organizations, or only by soft-deleted clients of O)      *)
(* stores the client.  A request whose explicit clientCode is taken in O   *)
(* is left out: it is refused for the code, not for the email.             *)
C10_CreateClientConflictsOnlyOnLiveEmail ==
  \A body \in ClientBodies :
    LET created == createClient(clients, body, now)
        org     == CastObjectId(body.organizationId)
        held    == \E i \in DOMAIN clients :
                     /\ clients[i].email = body.email
                     /\ clients[i].organizationId = org
                     /\ ~clients[i].isDeleted
        codeTaken == /\ "clientCode" \in body.has
                     /\ \E i \in DOMAIN clients :
                          /\ clients[i].clientCode = body.clientCode
                          /\ clients[i].organizationId = org
                          /\ ~clients[i].isDeleted
    IN  /\ held => created.status = 400 /\ created.store = clients
        /\ (~held /\ ~codeTaken)
             => /\ created.status = 201
                /\ Len(created.store) = Len(clients) + 1
                /\ created.store[Len(created.store)].email = body.email
                /\ created.store[Len(created.store)].organizationId = org

----------------------------------------------------------------------------
(* Both stores together, under a handful of requests: clients and          *)
(* collections of two organizations are created, updated, deleted and      *)
(* restored, and fetched from inside and outside their organization.       *)

ScopeUsers ==
  { User(U2, "manager", O1, <<C1, K1>>),
    User(U3, "collector", O1, <<C1>>),
    User(U5, "collector", O2, <<C1>>) }

ScopeAdmins == {User(U1, "admin", O1, <<>>)}

ScopeCreateBodies ==
  {CreateBody({}, IdString(C1), 0, "pending", Undefined, <<>>)}

ScopeClientBodies ==
  { ClientBody({"clientCode"}, <<"n">>, EmailA, <<"k">>, IdString(O1)),
    ClientBody({}, <<"n">>, EmailB, <<"k">>, IdString(O1)),
    ClientBody({}, <<"n">>, EmailA, <<"k">>, IdString(O2)) }

ScopeQueries == {Query({}, "pending", IdString(C1), IdString(U3), 0, 0, 1, 10)}

ScopeClientQueries ==
  {ClientQuery({}, <<"a">>, "business", TRUE, <<"@">>, 1, 10)}

NextScope ==
  \/ \E user \in ScopeUsers, body \in ScopeCreateBodies :
       PostCollectionRequest(user, body)
  \/ \E user \in ScopeUsers, id \in IdParams : GetCollectionRequest(user, id)
  \/ \E user \in ScopeUsers, id \in IdParams, updateData \in Patches :
       PutCollectionRequest(user, id, updateData)
  \/ \E user \in ScopeUsers, id \in IdParams : DeleteCollectionRequest(user, id)
  \/ \E user \in ScopeUsers, query \in ScopeQueries :
       GetAllCollectionsRequest(user, query)
  \/ \E user \in ScopeAdmins, o \in OrgParams, body \in ScopeClientBodies :
       PostClientRequest(user, o, body)
  \/ \E user \in ScopeAdmins, o \in OrgParams, id \in ClientIdParams :
       GetClientRequest(user, o, id)
  \/ \E user \in ScopeAdmins, o \in OrgParams, id \in ClientIdParams,
         updateData \in ClientPatches :
       PutClientRequest(user, o, id, updateData)
  \/ \E user \in ScopeAdmins, o \in OrgParams, id \in ClientIdParams :
       DeleteClientRequest(user, o, id)
  \/ \E user \in ScopeAdmins, o \in OrgParams, id \in ClientIdParams :
       RestoreClientRequest(user, o, id)
  \/ \E user \in ScopeAdmins, o \in OrgParams, query \in ScopeClientQueries :
       GetAllClientsRequest(user, o, query)
  \/ \E user \in ScopeAdmins, o \in OrgParams, query \in ScopeClientQueries :
       SearchClientsRequest(user, o, query)

SpecScope == Init /\ [][NextScope]_vars

SearchTerms == {<<"a">>, <<"@">>, <<"n">>, <<"k">>, <<>>}

(* The actors a collection is fetched and listed by: every role in either  *)
(* organization, with no assigned client and with both.                    *)
ScopeActors ==
  {User(U4, role, org, cl) :
     role \in Roles, org \in Orgs, cl \in {<<>>, <<C1, C2>>}}

Pages == 1..2

(* C5: a client or collection owned by one organization is never shown to  *)
(* a request scoped to another: the direct fetch (getClientById,           *)
(* getCollectionById, and the routes over them) answers 404, and no page   *)
(* of any listing (getAllClients, searchClients, getCollections,           *)
(* getCollectionsByClient, getCollectionsByStatus) contains it, whatever   *)
(* creates, updates, deletes and restores came before.                     *)
C5_OtherOrganizationNeverSees ==
  /\ \A i \in DOMAIN clients :
       \A o \in Orgs \ {clients[i].organizationId} :
         /\ getClientById(clients, IdString(clients[i]._id),
                          IdString(o)).status = 404
         /\ \A admin \in ScopeAdmins :
              GetClient(clients, admin, IdString(o),
                        IdString(clients[i]._id)).status = 404
         /\ \A page \in Pages, limit \in PageSizes :
              /\ clients[i] \notin
                   Range(getAllClients(clients, IdString(o), page, limit,
                                       ClientQuery({}, <<>>, "business", TRUE,
                                                   <<>>, page, limit)).data)
              /\ \A term \in SearchTerms :
                   clients[i] \notin
                     Range(searchClients(clients, IdString(o), term, page,
                                         limit).data)
  /\ \A i \in DOMAIN collections :
       \A user \in ScopeActors :
         user.organization # collections[i].organizationId
         => /\ GetCollection(collections, user,
                             IdString(collections[i]._id)).status = 404
            /\ FindCollection(collections, IdString(collections[i]._id),
                              user.organization) = 0
            /\ \A page \in Pages, limit \in PageSizes :
                 /\ collections[i] \notin
                      Range(GetAllCollections(collections, user,
                              ListingQuery({}, page, limit)).data)
                 /\ collections[i] \notin
                      Range(getCollectionsByClient(collections,
                              IdString(collections[i].clientId),
                              user.organization,
                              [page |-> page, limit |-> limit]).collections)
                 /\ collections[i] \notin
                      Range(getCollectionsByStatus(collections,
                              collections[i].status,
                              CollectionFilters(user,
                                                ListingQuery({}, page, limit)),
                              [page |-> page, limit |-> limit]).collections)

(* Every collection id and a client belong to live documents of O1, and a  *)
(* fetch of a collection, which can only have come from O2's collector,    *)
(* has just been answered 404.                                             *)
C5_Witness ==
  /\ last.op = "getCollectionById"
  /\ last.status = 404
  /\ \A id \in CollectionIds :
       \E i \in DOMAIN collections :
         /\ collections[i]._id = id
         /\ collections[i].organizationId = O1
         /\ ~collections[i].isDeleted
  /\ \E i \in DOMAIN clients :
       clients[i].organizationId = O1 /\ ~clients[i].isDeleted

----------------------------------------------------------------------------
(* Organizations *)

requireAdmin(user) == requireRole({"admin"}, user)

(* email: { unique: true }: one index over all documents, deleted or not *)
OrgEmailIndexAllows(orgs) ==
  \A i, j \in DOMAIN orgs : i # j => orgs[i].email # orgs[j].email

WriteOrganizations_Partial(orgs, written, code) ==
  IF OrgEmailIndexAllows(written)
    THEN Resp(code, written)
    ELSE Fail(500, "E11000 duplicate key", written)

(* A write is applied when the unique index accepts its result *)
WriteOrganizations(orgs, written, code) ==
  IF OrgEmailIndexAllows(written)
    THEN Resp(code, written)
    ELSE Fail(500, "E11000 duplicate key", orgs)

NewOrganizationDoc(orgs, organizationData, t) ==
  [_id       |-> Oid("O", Len(orgs) + 1),
   name      |-> organizationData.name,
   email     |-> organizationData.email,
   isActive  |-> TRUE,
   isDeleted |-> FALSE,
   deletedAt |-> NoDate,
   deletedBy |-> NullId,
   createdBy |-> CastObjectId(organizationData.createdBy),
   createdAt |-> t]

(* organizationService.createOrganization *)
createOrganization(orgs, organizationData, t) ==
  IF \E i \in DOMAIN orgs :
       orgs[i].email = organizationData.email /\ ~orgs[i].isDeleted
    THEN Fail(400, "Organization with this email already exists", orgs)
    ELSE WriteOrganizations(orgs,
           Append(orgs, NewOrganizationDoc(orgs, organizationData, t)), 201)

(* Organization.findOne({_id: id, isDeleted}): position or 0 *)
FindOrganization(orgs, id, isDeleted) ==
  IF \E i \in DOMAIN orgs :
       orgs[i]._id = CastObjectId(id) /\ orgs[i].isDeleted = isDeleted
    THEN CHOOSE i \in DOMAIN orgs :
           orgs[i]._id = CastObjectId(id) /\ orgs[i].isDeleted = isDeleted
    ELSE 0

(* organizationService.getOrganizationById *)
getOrganizationById(orgs, id) ==
  IF FindOrganization(orgs, id, FALSE) = 0
    THEN [status |-> 404, error |-> "Organization not found", data |-> <<>>]
    ELSE [status |-> 200, error |-> "",
          data |-> <<orgs[FindOrganization(orgs, id, FALSE)]>>]

getAllOrganizations_WithDeleted(orgs, page, limit, filters) ==
  LET found == {i \in DOMAIN orgs :
                  "isActive" \in filters.has
                    => orgs[i].isActive = filters.isActive}
  IN  [status |-> 200, error |-> "",
       data   |-> ClientPageOf(orgs, found, page, limit),
       total  |-> Cardinality(found)]

(* organizationService.getAllOrganizations *)
getAllOrganizations(orgs, page, limit, filters) ==
  LET found == {i \in DOMAIN orgs :
                  /\ ~orgs[i].isDeleted
                  /\ "isActive" \in filters.has
                       => orgs[i].isActive = filters.isActive}
  IN  [status |-> 200, error |-> "",
       data   |-> ClientPageOf(orgs, found, page, limit),
       total  |-> Cardinality(found)]

(* organizationService.updateOrganization *)
updateOrganization(orgs, id, updateData) ==
  IF /\ "email" \in updateData.has
     /\ \E i \in DOMAIN orgs :
          /\ orgs[i].email = updateData.email
          /\ orgs[i]._id # CastObjectId(id)
          /\ ~orgs[i].isDeleted
    THEN Fail(400, "Organization with this email already exists", orgs)
  ELSE IF FindOrganization(orgs, id, FALSE) = 0
    THEN Fail(404, "Organization not found", orgs)
  ELSE LET i == FindOrganization(orgs, id, FALSE)
       IN  WriteOrganizations(orgs,
             [orgs EXCEPT
                ![i].email    = IF "email" \in updateData.has
                                  THEN updateData.email ELSE @,
                ![i].name     = IF "name" \in updateData.has
                                  THEN updateData.name ELSE @,
                ![i].isActive = IF "isActive" \in updateData.has
                                  THEN updateData.isActive ELSE @],
             200)

MarkDeleted_KeepActive(doc, deletedBy, t) ==
  [doc EXCEPT !.isDeleted = TRUE,
              !.deletedAt = <<t>>,
              !.deletedBy = CastObjectId(deletedBy)]

(* findByIdAndUpdate(id, {$set: {isDeleted: true, isActive: false, ...}}) *)
MarkDeleted(doc, deletedBy, t) ==
  [doc EXCEPT !.isDeleted = TRUE,
              !.isActive  = FALSE,
              !.deletedAt = <<t>>,
              !.deletedBy = CastObjectId(deletedBy)]

deleteOrganization_Unfiltered(orgs, id, deletedBy, t) ==
  IF \A i \in DOMAIN orgs : orgs[i]._id # CastObjectId(id)
    THEN Fail(404, "Organization not found", orgs)
    ELSE LET i == CHOOSE k \in DOMAIN orgs : orgs[k]._id = CastObjectId(id)
         IN  WriteOrganizations(orgs,
               [orgs EXCEPT ![i] = MarkDeleted(@, deletedBy, t)], 200)

(* organizationService.deleteOrganization *)
deleteOrganization(orgs, id, deletedBy, t) ==
  IF FindOrganization(orgs, id, FALSE) = 0
    THEN Fail(404, "Organization not found", orgs)
    ELSE LET i == FindOrganization(orgs, id, FALSE)
         IN  WriteOrganizations(orgs,
               [orgs EXCEPT ![i] = MarkDeleted(@, deletedBy, t)], 200)

(* organizationService.restoreOrganization *)
restoreOrganization(orgs, id) ==
  IF FindOrganization(orgs, id, TRUE) = 0
    THEN Fail(404, "Organization not found or not deleted", orgs)
    ELSE LET i == FindOrganization(orgs, id, TRUE)
         IN  WriteOrganizations(orgs,
               [orgs EXCEPT ![i].isDeleted = FALSE,
                            ![i].isActive  = TRUE,
                            ![i].deletedAt = NoDate,
                            ![i].deletedBy = NullId],
               200)

(* The organization routes: router.use(auth), then the role of the route *)
RoleGate(roleAllowed) ==
  IF roleAllowed THEN Pass ELSE Gate(403, "Access denied")

PostOrganization(orgs, user, body, t) ==
  IF ~requireAdmin(user) THEN Refuse(RoleGate(FALSE), orgs)
  ELSE createOrganization(orgs, [body EXCEPT !.createdBy = IdString(user._id)],
                          t)

PutOrganization(orgs, user, id, updateData) ==
  IF ~requireAdmin(user) THEN Refuse(RoleGate(FALSE), orgs)
  ELSE updateOrganization(orgs, id, updateData)

DeleteOrganization(orgs, user, id, t) ==
  IF ~requireAdmin(user) THEN Refuse(RoleGate(FALSE), orgs)
  ELSE deleteOrganization(orgs, id, IdString(user._id), t)

RestoreOrganization(orgs, user, id) ==
  IF ~requireAdmin(user) THEN Refuse(RoleGate(FALSE), orgs)
  ELSE restoreOrganization(orgs, id)

GetOrganization(orgs, user, id) ==
  IF ~requireManagerOrAdmin(user) THEN NoData(RoleGate(FALSE))
  ELSE [status |-> getOrganizationById(orgs, id).status,
        error  |-> getOrganizationById(orgs, id).error,
        data   |-> getOrganizationById(orgs, id).data,
        total  |-> Len(getOrganizationById(orgs, id).data)]

GetAllOrganizations(orgs, user, query) ==
  IF ~requireManagerOrAdmin(user) THEN NoData(RoleGate(FALSE))
  ELSE getAllOrganizations(orgs, query.page, query.limit, query)

----------------------------------------------------------------------------
(* Organization requests *)

MaxOrganizations == 2

OrganizationBody(name, email) ==
  [name |-> name, email |-> email, createdBy |-> IdString(NullId)]

OrganizationBodies ==
  {OrganizationBody(<<"n">>, email) : email \in {EmailA, EmailB}}

OrganizationPatch(has, name, email, isActive) ==
  [has |-> has, name |-> name, email |-> email, isActive |-> isActive]

OrganizationPatches ==
  { OrganizationPatch({"isActive"}, <<"n">>, EmailA, FALSE),
    OrganizationPatch({"name", "email"}, <<"m">>, EmailB, TRUE) }

OrganizationQuery(has, isActive, page, limit) ==
  [has |-> has, isActive |-> isActive, page |-> page, limit |-> limit]

OrganizationQueries ==
  { OrganizationQuery({}, TRUE, 1, 10),
    OrganizationQuery({"isActive"}, TRUE, 1, 1) }

OrganizationUsers ==
  { User(U1, "admin", O1, <<>>),
    User(U2, "manager", O1, <<C1, K1>>) }

PostOrganizationRequest(user, body) ==
  /\ Len(organizations) < MaxOrganizations
  /\ organizations' = PostOrganization(organizations, user, body, now).store
  /\ last' = Response("createOrganization",
                      PostOrganization(organizations, user, body, now))
  /\ UNCHANGED <<collections, clients, now, inflight, users, pending>>

GetOrganizationRequest(user, id) ==
  /\ last' = Response("getOrganizationById",
                      GetOrganization(organizations, user, id))
  /\ UNCHANGED <<collections, clients, now, inflight, organizations, users,
                 pending>>

GetAllOrganizationsRequest(user, query) ==
  /\ last' = Response("getAllOrganizations",
                      GetAllOrganizations(organizations, user, query))
  /\ UNCHANGED <<collections, clients, now, inflight, organizations, users,
                 pending>>

PutOrganizationRequest(user, id, updateData) ==
  /\ organizations' = PutOrganization(organizations, user, id, updateData).store
  /\ last' = Response("updateOrganization",
                      PutOrganization(organizations, user, id, updateData))
  /\ UNCHANGED <<collections, clients, now, inflight, users, pending>>

DeleteOrganizationRequest(user, id) ==
  /\ organizations' = DeleteOrganization(organizations, user, id, now).store
  /\ last' = Response("deleteOrganization",
                      DeleteOrganization(organizations, user, id, now))
  /\ UNCHANGED <<collections, clients, now, inflight, users, pending>>

RestoreOrganizationRequest(user, id) ==
  /\ organizations' = RestoreOrganization(organizations, user, id).store
  /\ last' = Response("restoreOrganization",
                      RestoreOrganization(organizations, user, id))
  /\ UNCHANGED <<collections, clients, now, inflight, users, pending>>

(* The lifecycle of the three soft-deletable entities, one request at a    *)
(* time: organizations and clients by the admin, collections by the        *)
(* manager, who is refused on the admin's routes.                          *)
LifecycleAdmins == {User(U1, "admin", O1, <<>>)}

LifecycleManagers == {User(U2, "manager", O1, <<C1, K1>>)}

LifecycleOrganizationBodies == {OrganizationBody(<<"n">>, EmailA)}

LifecycleClientBodies ==
  {ClientBody({}, <<"n">>, EmailA, <<"k">>, IdString(O1))}

LifecycleOrgParams == {IdString(O1)}

NextLifecycle ==
  \/ Tick
  \/ \E user \in LifecycleAdmins, body \in LifecycleOrganizationBodies :
       PostOrganizationRequest(user, body)
  \/ \E user \in LifecycleAdmins, id \in OrgParams,
         updateData \in OrganizationPatches :
       PutOrganizationRequest(user, id, updateData)
  \/ \E user \in OrganizationUsers, id \in OrgParams :
       DeleteOrganizationRequest(user, id)
  \/ \E user \in LifecycleAdmins, id \in OrgParams :
       RestoreOrganizationRequest(user, id)
  \/ \E user \in LifecycleAdmins, o \in LifecycleOrgParams,
         body \in LifecycleClientBodies :
       PostClientRequest(user, o, body)
  \/ \E user \in LifecycleAdmins, o \in LifecycleOrgParams,
         id \in ClientIdParams :
       DeleteClientRequest(user, o, id)
  \/ \E user \in LifecycleAdmins, o \in LifecycleOrgParams,
         id \in ClientIdParams :
       RestoreClientRequest(user, o, id)
  \/ \E user \in LifecycleManagers, body \in ScopeCreateBodies :
       PostCollectionRequest(user, body)
  \/ \E user \in LifecycleManagers, id \in IdParams :
       DeleteCollectionRequest(user, id)
  \/ \E user \in LifecycleAdmins, query \in OrganizationQueries :
       GetAllOrganizationsRequest(user, query)
  \/ \E user \in LifecycleAdmins, o \in LifecycleOrgParams,
         query \in ScopeClientQueries :
       GetAllClientsRequest(user, o, query)
  \/ \E user \in LifecycleManagers, query \in ScopeQueries :
       GetAllCollectionsRequest(user, query)

SpecLifecycle == Init /\ [][NextLifecycle]_vars

(* The organization routes on their own *)
NextOrganizations ==
  \/ Tick
  \/ \E user \in OrganizationUsers, body \in OrganizationBodies :
       PostOrganizationRequest(user, body)
  \/ \E user \in OrganizationUsers, id \in OrgParams :
       GetOrganizationRequest(user, id)
  \/ \E user \in OrganizationUsers, query \in OrganizationQueries :
       GetAllOrganizationsRequest(user, query)
  \/ \E user \in OrganizationUsers, id \in OrgParams,
         updateData \in OrganizationPatches :
       PutOrganizationRequest(user, id, updateData)
  \/ \E user \in OrganizationUsers, id \in OrgParams :
       DeleteOrganizationRequest(user, id)
  \/ \E user \in OrganizationUsers, id \in OrgParams :
       RestoreOrganizationRequest(user, id)

SpecOrganizations == Init /\ [][NextOrganizations]_vars

----------------------------------------------------------------------------
(* Soft delete of what is already deleted *)

ActorIds == {U1, U2, U3}

Unchanged(r, store) == r.status >= 400 /\ r.store = store

(* C11: deleteOrganization, deleteClient and deleteCollection called on an *)
(* entity that is already soft-deleted answer 404 Not Found, never a       *)
(* success, and leave isDeleted, isActive, deletedAt and deletedBy as the  *)
(* first delete wrote them; the DELETE routes never answer 2xx for it.     *)
C11_DeleteOfDeletedIsNotFound ==
  /\ \A i \in DOMAIN organizations : organizations[i].isDeleted =>
       /\ \A by \in ActorIds :
            LET r == deleteOrganization(organizations,
                       IdString(organizations[i]._id), IdString(by), now)
            IN  r.status = 404 /\ r.store = organizations
       /\ \A user \in Users :
            LET r == DeleteOrganization(organizations, user,
                       IdString(organizations[i]._id), now)
            IN  /\ Unchanged(r, organizations)
                /\ requireAdmin(user) => r.status = 404
  /\ \A i \in DOMAIN clients : clients[i].isDeleted =>
       /\ \A by \in ActorIds :
          \A scope \in {NoScope, IdString(clients[i].organizationId)} :
            LET r == deleteClient(clients, IdString(clients[i]._id),
                                  IdString(by), scope, now)
            IN  r.status = 404 /\ r.store = clients
       /\ \A user \in Users, o \in OrgParams :
            LET r == DeleteClient(clients, user, o,
                                  IdString(clients[i]._id), now)
            IN  /\ Unchanged(r, clients)
                /\ ManagerGate(user, o) = Pass => r.status = 404
  /\ \A i \in DOMAIN collections : collections[i].isDeleted =>
       /\ \A by \in ActorIds :
            LET r == deleteCollection(collections,
                       IdString(collections[i]._id),
                       collections[i].organizationId, by, now)
            IN  r.status = 404 /\ r.store = collections
       /\ \A user \in Users :
            Unchanged(DeleteCollection(collections, user,
                        IdString(collections[i]._id), now), collections)

C11_Witness ==
  /\ last.op = "deleteCollection" /\ last.status = 404
  /\ \E i \in DOMAIN collections :
       collections[i].isDeleted /\ collections[i].deletedAt # <<now>>
  /\ \E i \in DOMAIN organizations : organizations[i].isDeleted
  /\ \E i \in DOMAIN clients : clients[i].isDeleted

----------------------------------------------------------------------------
(* Restore after soft delete *)

Listed(page, id) == \E k \in DOMAIN page : page[k]._id = id

(* C12: for every non-deleted organization or client e, softDelete(e)      *)
(* followed by restore(e) succeeds and yields an entity equal to e in all  *)
(* fields except the lifecycle timestamps, isActive as it was before the   *)
(* delete included, and e is again in the default listing.                 *)
C12_RestoreInvertsDelete ==
  /\ \A i \in DOMAIN organizations : ~organizations[i].isDeleted =>
       LET id == IdString(organizations[i]._id)
           d  == deleteOrganization(organizations, id, IdString(U1), now)
           r  == restoreOrganization(d.store, id)
       IN  /\ d.status = 200 /\ r.status = 200
           /\ r.store[i] = organizations[i]
           /\ Listed(getAllOrganizations(r.store, 1, 10,
                       OrganizationQuery({}, TRUE, 1, 10)).data,
                     organizations[i]._id)
  /\ \A i \in DOMAIN clients : ~clients[i].isDeleted =>
       LET id    == IdString(clients[i]._id)
           scope == IdString(clients[i].organizationId)
           d     == deleteClient(clients, id, IdString(U1), scope, now)
           r     == restoreClient(d.store, id, scope)
       IN  /\ d.status = 200 /\ r.status = 200
           /\ r.store[i] = clients[i]
           /\ Listed(getAllClients(r.store, scope, 1, 10,
                       ClientQuery({}, <<"a">>, "business", TRUE, <<"@">>,
                                   1, 10)).data,
                     clients[i]._id)

----------------------------------------------------------------------------
(* Soft deletes and updates step by step: each handler awaits its lookup   *)
(* and then its write, and other requests run between the two.             *)

MaxPending == 2

PendingIds == 1..MaxPending

(* Clients and collections the racing requests are about *)
MaxRaced == 1

PendingRequest(rid, op, id, by, t, data) ==
  [rid |-> rid, op |-> op, id |-> id, by |-> by, t |-> t, data |-> data]

NoPatch == Patch({}, "pending", Undefined, <<>>)

(* Requests are numbered in the order they arrive *)
FreeRid(rid) ==
  /\ \A req \in pending : req.rid # rid
  /\ \A r \in 1..(rid - 1) : \E req \in pending : req.rid = r

(* Model.findById(id): position of the document or 0 *)
ById(store, id) ==
  IF \E i \in DOMAIN store : store[i]._id = CastObjectId(id)
    THEN CHOOSE i \in DOMAIN store : store[i]._id = CastObjectId(id)
    ELSE 0

(* deleteOrganization up to the awaited findOne; new Date() is read when   *)
(* the lookup has answered.                                                *)
DeleteOrganizationBegin(user, id, rid) ==
  /\ FreeRid(rid)
  /\ IF DeleteOrganization(organizations, user, id, now).status = 200
       THEN /\ pending' = pending \cup
                 {PendingRequest(rid, "deleteOrganization", id,
                                 IdString(user._id), now, NoPatch)}
            /\ UNCHANGED last
       ELSE /\ last' = Response("deleteOrganization",
                         DeleteOrganization(organizations, user, id, now))
            /\ UNCHANGED pending
  /\ UNCHANGED <<collections, clients, now, inflight, organizations, users>>

(* Organization.findByIdAndUpdate(id, {$set: ...}) *)
DeleteOrganizationCommit(req) ==
  /\ req.op = "deleteOrganization"
  /\ organizations' =
       [organizations EXCEPT ![ById(organizations, req.id)] =
          MarkDeleted(@, req.by, req.t)]
  /\ last' = [op |-> "deleteOrganization", status |-> 200, error |-> ""]
  /\ pending' = pending \ {req}
  /\ UNCHANGED <<collections, clients, now, inflight, users>>

(* deleteClient up to the awaited findOne *)
DeleteClientBegin(user, organizationId, id, rid) ==
  /\ FreeRid(rid)
  /\ IF /\ ManagerGate(user, organizationId) = Pass
        /\ FindClient(clients, id, organizationId, FALSE) # 0
       THEN /\ pending' = pending \cup
                 {PendingRequest(rid, "deleteClient", id, IdString(user._id),
                                 now, NoPatch)}
            /\ UNCHANGED last
       ELSE /\ last' = Response("deleteClient",
                         DeleteClient(clients, user, organizationId, id, now))
            /\ UNCHANGED pending
  /\ UNCHANGED <<collections, clients, now, inflight, organizations, users>>

(* Client.findByIdAndUpdate(id, {$set: ...}) *)
DeleteClientCommit(req) ==
  /\ req.op = "deleteClient"
  /\ clients' =
       WriteClients(clients,
         [clients EXCEPT ![ById(clients, req.id)] =
            MarkDeleted(@, req.by, req.t)], 200).store
  /\ last' = Response("deleteClient",
       WriteClients(clients,
         [clients EXCEPT ![ById(clients, req.id)] =
            MarkDeleted(@, req.by, req.t)], 200))
  /\ pending' = pending \ {req}
  /\ UNCHANGED <<collections, now, inflight, organizations, users>>

(* DELETE /collections/:id up to the service's awaited findOne; softDelete *)
(* sets the fields of the loaded document as soon as the lookup answers.   *)
DeleteCollectionBegin(user, id, rid) ==
  /\ FreeRid(rid)
  /\ IF DeleteCollectionGate(collections, user, id) = Pass
       THEN /\ pending' = pending \cup
                 {PendingRequest(rid, "deleteCollection", id, user._id, now,
                                 NoPatch)}
            /\ UNCHANGED last
       ELSE /\ last' = Response("deleteCollection",
                         DeleteCollection(collections, user, id, now))
            /\ UNCHANGED pending
  /\ UNCHANGED <<collections, clients, now, inflight, organizations, users>>

(* document.save(): the modified paths are written by _id *)
DeleteCollectionCommit(req) ==
  /\ req.op = "deleteCollection"
  /\ collections' =
       [collections EXCEPT ![ById(collections, req.id)] =
          softDelete(@, req.by, req.t)]
  /\ last' = [op |-> "deleteCollection", status |-> 200, error |-> ""]
  /\ pending' = pending \ {req}
  /\ UNCHANGED <<clients, now, inflight, organizations, users>>

(* PUT /collections/:id up to the service's awaited findOne *)
UpdateCollectionBegin(user, id, updateData, rid) ==
  /\ FreeRid(rid)
  /\ IF CollectionAccessGate(collections, user, id) = Pass
       THEN /\ pending' = pending \cup
                 {PendingRequest(rid, "updateCollection", id, user._id, now,
                                 updateData)}
            /\ UNCHANGED last
       ELSE /\ last' = Response("updateCollection",
                         PutCollection(collections, user, id, updateData))
            /\ UNCHANGED pending
  /\ UNCHANGED <<collections, clients, now, inflight, organizations, users>>

(* document.save() of the paths the update assigned *)
UpdateCollectionCommit(req) ==
  /\ req.op = "updateCollection"
  /\ collections' =
       [collections EXCEPT ![ById(collections, req.id)] =
          ApplyPatch(@, req.data)]
  /\ last' = [op |-> "updateCollection", status |-> 200, error |-> ""]
  /\ pending' = pending \ {req}
  /\ UNCHANGED <<clients, now, inflight, organizations, users>>

RaceOrganizationPatches ==
  {OrganizationPatch({"isActive"}, <<"n">>, EmailA, FALSE)}

RaceIds == {IdString(K1)}

RaceClientIds == {IdString(C1)}

NextRace ==
  \/ Tick
  \/ \E user \in LifecycleAdmins, body \in LifecycleOrganizationBodies :
       PostOrganizationRequest(user, body)
  \/ \E user \in LifecycleAdmins, id \in LifecycleOrgParams,
         updateData \in RaceOrganizationPatches :
       PutOrganizationRequest(user, id, updateData)
  \/ \E user \in LifecycleAdmins, id \in LifecycleOrgParams,
         rid \in PendingIds :
       DeleteOrganizationBegin(user, id, rid)
  \/ \E req \in pending : DeleteOrganizationCommit(req)
  \/ \E user \in LifecycleAdmins, id \in LifecycleOrgParams :
       RestoreOrganizationRequest(user, id)
  \/ \E user \in LifecycleAdmins, o \in LifecycleOrgParams,
         body \in LifecycleClientBodies :
       Len(clients) < MaxRaced /\ PostClientRequest(user, o, body)
  \/ \E user \in LifecycleAdmins, o \in LifecycleOrgParams,
         id \in RaceClientIds, rid \in PendingIds :
       DeleteClientBegin(user, o, id, rid)
  \/ \E req \in pending : DeleteClientCommit(req)
  \/ \E user \in LifecycleAdmins, o \in LifecycleOrgParams,
         id \in RaceClientIds :
       RestoreClientRequest(user, o, id)
  \/ \E user \in LifecycleManagers, body \in ScopeCreateBodies :
       Len(collections) < MaxRaced /\ PostCollectionRequest(user, body)
  \/ \E user \in LifecycleManagers, id \in RaceIds, rid \in PendingIds :
       DeleteCollectionBegin(user, id, rid)
  \/ \E req \in pending : DeleteCollectionCommit(req)
  \/ \E user \in LifecycleManagers, id \in RaceIds, updateData \in Patches,
         rid \in PendingIds :
       UpdateCollectionBegin(user, id, updateData, rid)
  \/ \E req \in pending : UpdateCollectionCommit(req)

SpecRace == Init /\ [][NextRace]_vars

----------------------------------------------------------------------------
(* Lifecycle fields *)

LifecycleConsistent(doc) ==
  /\ doc.isDeleted =>
       ~doc.isActive /\ doc.deletedAt # NoDate /\ doc.deletedBy # NullId
  /\ ~doc.isDeleted => doc.deletedAt = NoDate /\ doc.deletedBy = NullId

(* C13: every stored organization, client and collection that is deleted   *)
(* is inactive and carries deletedAt and deletedBy, and every one that is  *)
(* not deleted carries neither, after any sequence and interleaving of     *)
(* create, update, soft delete and restore.                                *)
C13_LifecycleFieldsConsistent ==
  /\ \A i \in DOMAIN organizations : LifecycleConsistent(organizations[i])
  /\ \A i \in DOMAIN clients : LifecycleConsistent(clients[i])
  /\ \A i \in DOMAIN collections : LifecycleConsistent(collections[i])

C13_Witness ==
  /\ last.op = "restoreClient" /\ last.status = 200
  /\ \E i \in DOMAIN clients : ~clients[i].isDeleted
  /\ \E i \in DOMAIN organizations :
       organizations[i].isDeleted /\ organizations[i].deletedAt # <<now>>
  /\ \E i \in DOMAIN collections :
       collections[i].isDeleted /\ collections[i].status = "delivered"
  /\ \E req \in pending : req.op = "deleteOrganization"

----------------------------------------------------------------------------
(* Collection statistics *)

StatsFilters(has, dateFrom, dateTo, clientId, collectedBy) ==
  [has |-> has, dateFrom |-> dateFrom, dateTo |-> dateTo,
   clientId |-> clientId, collectedBy |-> collectedBy]

(* Aggregation pipelines are sent as written: the id strings of baseFilter *)
(* are compared as strings with the stored ObjectIds, and a string is      *)
(* never equal to an ObjectId.                                             *)
EqualsUncast(objectId, str) == FALSE

(* What countDocuments and find do with baseFilter: values are cast to the *)
(* type of the schema path.                                                *)
EqualsCast(objectId, str) == objectId = CastObjectId(str)

(* baseFilter apart from the two id filters *)
MatchesBaseFilter(c, organizationId, filters) ==
  /\ c.organizationId = organizationId
  /\ ~c.isDeleted
  /\ ("dateFrom" \in filters.has => c.dateTime >= filters.dateFrom)
  /\ ("dateTo" \in filters.has => c.dateTime <= filters.dateTo)

(* Collection.countDocuments(baseFilter), Collection.find(baseFilter) *)
CountMatching(colls, organizationId, filters) ==
  {i \in DOMAIN colls :
     /\ MatchesBaseFilter(colls[i], organizationId, filters)
     /\ "clientId" \in filters.has
          => EqualsCast(colls[i].clientId, filters.clientId)
     /\ "collectedBy" \in filters.has
          => EqualsCast(colls[i].collectedBy, filters.collectedBy)}

(* {$match: baseFilter} of Collection.aggregate *)
AggregateMatching(colls, organizationId, filters) ==
  {i \in DOMAIN colls :
     /\ MatchesBaseFilter(colls[i], organizationId, filters)
     /\ "clientId" \in filters.has
          => EqualsUncast(colls[i].clientId, filters.clientId)
     /\ "collectedBy" \in filters.has
          => EqualsUncast(colls[i].collectedBy, filters.collectedBy)}

(* {$group: {_id: '$status', count: {$sum: 1}}} and the forEach that       *)
(* copies its rows: one entry per status that occurs.                      *)
statusCounts(colls, organizationId, filters) ==
  [s \in {colls[i].status :
            i \in AggregateMatching(colls, organizationId, filters)} |->
     Cardinality({i \in AggregateMatching(colls, organizationId, filters) :
                    colls[i].status = s})]

(* collectionService.getCollectionStats, all three queries on one store *)
getCollectionStats(colls, organizationId, filters) ==
  [totalCollections  |->
     Cardinality(CountMatching(colls, organizationId, filters)),
   statusCounts      |-> statusCounts(colls, organizationId, filters),
   recentCollections |->
     PageOf(colls, CountMatching(colls, organizationId, filters),
            [page |-> 1, limit |-> 10])]

StatsFilterSets ==
  { StatsFilters({}, 1, 2, IdString(C1), IdString(U2)),
    StatsFilters({"dateFrom", "dateTo"}, 1, 1, IdString(C1), IdString(U2)),
    StatsFilters({"clientId"}, 1, 2, IdString(C1), IdString(U2)),
    StatsFilters({"collectedBy"}, 1, 2, IdString(C1), IdString(U2)) }

----------------------------------------------------------------------------
(* Reads and deleted entities *)

IsLive(doc) == ~doc.isDeleted

Live(store) == SelectSeq(store, IsLive)

ReadActors ==
  { User(U2, "manager", O1, <<C1, K1>>),
    User(U3, "collector", O1, <<C1>>) }

ReadScopes == {NoScope, IdString(O1)}

(* C14: no read returns or counts a soft-deleted entity: every listing,    *)
(* search and statistic answers exactly as if the deleted entities were    *)
(* not stored, every fetch by id of a deleted entity answers 404, and only *)
(* the lookup of restore selects deleted entities.                         *)
C14_ReadsIgnoreDeleted ==
  /\ \A user \in ReadActors :
       /\ \A query \in Queries :
            getCollections(collections, CollectionFilters(user, query),
                           [page |-> query.page, limit |-> query.limit])
              = getCollections(Live(collections),
                               CollectionFilters(user, query),
                               [page |-> query.page, limit |-> query.limit])
       /\ \A status \in Statuses :
            getCollectionsByStatus(collections, status,
              CollectionFilters(user, Query({}, status, IdString(C1),
                                            IdString(U3), 0, 0, 1, 10)),
              [page |-> 1, limit |-> 10])
              = getCollectionsByStatus(Live(collections), status,
                  CollectionFilters(user, Query({}, status, IdString(C1),
                                                IdString(U3), 0, 0, 1, 10)),
                  [page |-> 1, limit |-> 10])
  /\ \A c \in ClientIdParams, o \in Orgs :
       getCollectionsByClient(collections, c, o, [page |-> 1, limit |-> 10])
         = getCollectionsByClient(Live(collections), c, o,
                                  [page |-> 1, limit |-> 10])
  /\ \A o \in Orgs, filters \in StatsFilterSets :
       getCollectionStats(collections, o, filters)
         = getCollectionStats(Live(collections), o, filters)
  /\ \A i \in DOMAIN collections : collections[i].isDeleted =>
       FindCollection(collections, IdString(collections[i]._id),
                      collections[i].organizationId) = 0
  /\ \A scope \in ReadScopes :
       /\ \A query \in ClientQueries :
            getAllClients(clients, scope, query.page, query.limit, query)
              = getAllClients(Live(clients), scope, query.page, query.limit,
                              query)
       /\ \A q \in SearchTerms :
            searchClients(clients, scope, q, 1, 10)
              = searchClients(Live(clients), scope, q, 1, 10)
       /\ \A i \in DOMAIN clients : clients[i].isDeleted =>
            /\ getClientById(clients, IdString(clients[i]._id), scope).status
                 = 404
            /\ FindClient(clients, IdString(clients[i]._id), scope, TRUE) = i
  /\ \A query \in OrganizationQueries :
       getAllOrganizations(organizations, query.page, query.limit, query)
         = getAllOrganizations(Live(organizations), query.page, query.limit,
                               query)
  /\ \A i \in DOMAIN organizations : organizations[i].isDeleted =>
       /\ getOrganizationById(organizations,
                              IdString(organizations[i]._id)).status = 404
       /\ FindOrganization(organizations, IdString(organizations[i]._id),
                           TRUE) = i

C14_Witness ==
  /\ last.op = "getAllCollections" /\ last.status = 200
  /\ \E i, j \in DOMAIN collections :
       collections[i].isDeleted /\ ~collections[j].isDeleted
  /\ \E i, j \in DOMAIN clients : clients[i].isDeleted /\ ~clients[j].isDeleted
  /\ \E i \in DOMAIN organizations : organizations[i].isDeleted

----------------------------------------------------------------------------
(* Failed writes *)

ErrorLeaves(r, store) == r.status >= 400 => r.store = store

WriteActors ==
  { User(U1, "admin", O1, <<>>),
    User(U2, "manager", O1, <<C1, K1>>),
    User(U3, "collector", O1, <<C1>>) }

WriteClientPatches ==
  { ClientPatch({"name", "email"}, <<"m">>, EmailB, TRUE),
    ClientPatch({"isActive"}, <<"m">>, EmailB, FALSE) }

(* C15: a create, update, soft delete or restore of an organization,       *)
(* client or collection that is answered with an error (validation,        *)
(* authorization, not found, conflict, duplicate key) leaves the stored    *)
(* entities exactly as they were before the call.                          *)
C15_ErrorLeavesStoreUnchanged ==
  \A user \in WriteActors :
       /\ \A body \in OrganizationBodies :
            ErrorLeaves(PostOrganization(organizations, user, body, now),
                        organizations)
       /\ \A id \in OrgParams :
            /\ \A updateData \in OrganizationPatches :
                 ErrorLeaves(PutOrganization(organizations, user, id,
                                             updateData), organizations)
            /\ ErrorLeaves(DeleteOrganization(organizations, user, id, now),
                           organizations)
            /\ ErrorLeaves(RestoreOrganization(organizations, user, id),
                           organizations)
       /\ \A o \in LifecycleOrgParams :
            /\ \A body \in ScopeClientBodies :
                 ErrorLeaves(PostClient(clients, user, o, body, now), clients)
            /\ \A id \in ClientIdParams :
                 /\ \A updateData \in WriteClientPatches :
                      /\ ErrorLeaves(PutClient(clients, user, o, id,
                                               updateData), clients)
                      /\ ErrorLeaves(updateClient(clients, id, updateData, o),
                                     clients)
                 /\ ErrorLeaves(DeleteClient(clients, user, o, id, now),
                                clients)
                 /\ ErrorLeaves(RestoreClient(clients, user, o, id), clients)
       /\ \A body \in CreateBodies :
            ErrorLeaves(PostCollection(collections, user, body, now),
                        collections)
       /\ \A id \in IdParams :
            /\ \A updateData \in Patches :
                 ErrorLeaves(PutCollection(collections, user, id, updateData),
                             collections)
            /\ ErrorLeaves(DeleteCollection(collections, user, id, now),
                           collections)

C15_Witness ==
  /\ last.op = "createOrganization" /\ last.status = 500
  /\ Len(organizations) = 1 /\ organizations[1].isDeleted
  /\ \E i \in DOMAIN clients : clients[i].isDeleted
  /\ \E i \in DOMAIN collections : ~collections[i].isDeleted

----------------------------------------------------------------------------
(* Users *)

UserUpdate(has, firstName, role, organization, cl, isActive) ==
  [has |-> has, firstName |-> firstName, role |-> role,
   organization |-> organization, clients |-> cl, isActive |-> isActive]

(* userController.updateUser; req.user is the authenticated actor *)
updateUser(us, actor, userId, body) ==
  LET i == ById(us, userId)
      isAdminOrManager == actor.role \in {"admin", "manager"}
  IN  IF i = 0 THEN Fail(404, "User not found", us)
      ELSE IF /\ body.has \cap {"role", "organization", "clients"} # {}
              /\ ~isAdminOrManager
        THEN Fail(403, "Only admin and manager can update user roles", us)
      ELSE IF "isActive" \in body.has /\ ~isAdminOrManager
        THEN Fail(403, "Only admin and manager can activate users", us)
      ELSE Resp(200,
             [us EXCEPT
                ![i].firstName =
                   IF "firstName" \in body.has THEN body.firstName ELSE @,
                ![i].role =
                   IF isAdminOrManager /\ "role" \in body.has
                     THEN body.role ELSE @,
                ![i].organization =
                   IF isAdminOrManager /\ "organization" \in body.has
                     THEN CastObjectId(body.organization) ELSE @,
                ![i].clients =
                   IF isAdminOrManager /\ "clients" \in body.has
                     THEN body.clients ELSE @,
                ![i].isActive =
                   IF isAdminOrManager /\ "isActive" \in body.has
                     THEN body.isActive ELSE @])

(* PUT /users/:userId *)
PutUser(us, actor, userId, body) ==
  IF ~requireManagerOrAdmin(actor) THEN Refuse(RoleGate(FALSE), us)
  ELSE updateUser(us, actor, userId, body)

UserUpdates ==
  { UserUpdate({"firstName"}, "zed", "collector", IdString(O1), <<>>, TRUE),
    UserUpdate({"role"}, "zed", "collector", IdString(O1), <<>>, TRUE),
    UserUpdate({"role"}, "zed", "manager", IdString(O1), <<>>, TRUE),
    UserUpdate({"isActive"}, "zed", "collector", IdString(O1), <<>>, FALSE),
    UserUpdate({"firstName", "clients"}, "zed", "collector", IdString(O1),
               <<C2>>, TRUE) }

UserIdParams == {IdString(u) : u \in {U1, U2, U3, U4}}

PutUserRequest(a, userId, body) ==
  /\ users' = PutUser(users, users[a], userId, body).store
  /\ last' = Response("updateUser", PutUser(users, users[a], userId, body))
  /\ UNCHANGED <<collections, clients, now, inflight, organizations, pending>>

NextUsers ==
  \E a \in DOMAIN users, userId \in UserIdParams, body \in UserUpdates :
    PutUserRequest(a, userId, body)

SpecUsers == Init /\ [][NextUsers]_vars

Privileged == {"role", "organization", "clients", "isActive"}

Applied(before, after, body) ==
  /\ "firstName" \in body.has => after.firstName = body.firstName
  /\ "role" \in body.has => after.role = body.role
  /\ "clients" \in body.has => after.clients = body.clients
  /\ "isActive" \in body.has => after.isActive = body.isActive

(* C16: PUT /users/:userId applies a change of role, organization, clients *)
(* or isActive only when the actor is manager or admin, and otherwise      *)
(* answers 403 with the user unchanged; a patch of profile fields only,    *)
(* sent by the user it is about, is applied whatever that user's role.     *)
C16_PrivilegedFieldsOnlyByManagerOrAdmin ==
  \A a, i \in DOMAIN users : \A body \in UserUpdates :
    LET r == PutUser(users, users[a], IdString(users[i]._id), body)
    IN  /\ body.has \cap Privileged # {} =>
             IF users[a].role \in {"admin", "manager"}
               THEN r.status = 200 /\ Applied(users[i], r.store[i], body)
               ELSE r.status = 403 /\ r.store = users
        /\ (body.has \cap Privileged = {} /\ a = i) =>
             r.status = 200 /\ Applied(users[i], r.store[i], body)

----------------------------------------------------------------------------
(* getCollectionStats step by step: the count, the aggregation and the     *)
(* recent collections are three awaited queries.                           *)

StatsData(filters, totalCollections, counts) ==
  [filters |-> filters, totalCollections |-> totalCollections,
   statusCounts |-> counts]

(* await Collection.countDocuments(baseFilter) *)
StatsCount(user, filters, rid) ==
  /\ FreeRid(rid)
  /\ pending' = pending \cup
       {PendingRequest(rid, "countDocuments", getOrganizationId(user),
          user._id, now,
          StatsData(filters,
            Cardinality(CountMatching(collections, getOrganizationId(user),
                                      filters)),
            [s \in {} |-> 0]))}
  /\ UNCHANGED <<collections, clients, now, inflight, last, organizations,
                 users>>

(* await Collection.aggregate([...]) and the forEach over its rows *)
StatsAggregate(req) ==
  /\ req.op = "countDocuments"
  /\ pending' = (pending \ {req}) \cup
       {[req EXCEPT !.op = "aggregate",
                    !.data.statusCounts =
                       statusCounts(collections, req.id, req.data.filters)]}
  /\ UNCHANGED <<collections, clients, now, inflight, last, organizations,
                 users>>

(* await Collection.find(baseFilter)... and the return *)
StatsReturn(req) ==
  /\ req.op = "aggregate"
  /\ pending' = pending \ {req}
  /\ last' = [op |-> "getCollectionStats", status |-> 200, error |-> ""]
  /\ UNCHANGED <<collections, clients, now, inflight, organizations, users>>

RacedStatsFilters ==
  { StatsFilters({}, 1, 2, IdString(C1), IdString(U2)),
    StatsFilters({"clientId"}, 1, 2, IdString(C1), IdString(U2)) }

NextStats ==
  \/ Tick
  \/ \E user \in LifecycleManagers, body \in ScopeCreateBodies :
       PostCollectionRequest(user, body)
  \/ \E user \in LifecycleManagers, id \in IdParams :
       DeleteCollectionRequest(user, id)
  \/ \E user \in LifecycleManagers, filters \in RacedStatsFilters,
         rid \in PendingIds :
       StatsCount(user, filters, rid)
  \/ \E req \in pending : StatsAggregate(req)
  \/ \E req \in pending : StatsReturn(req)

SpecStats == Init /\ [][NextStats]_vars

RECURSIVE SumOver(_, _)
SumOver(counts, keys) ==
  IF keys = {} THEN 0
  ELSE LET k == CHOOSE x \in keys : TRUE
       IN  counts[k] + SumOver(counts, keys \ {k})

SumOfCounts(counts) == SumOver(counts, DOMAIN counts)

(* C17: in every answer of getCollectionStats the values of statusCounts   *)
(* add up to totalCollections, also when other requests run between the   *)
(* count query and the aggregation.                                        *)
C17_StatusCountsAddUpToTotal ==
  /\ \A req \in pending : req.op = "aggregate" =>
       SumOfCounts(req.data.statusCounts) = req.data.totalCollections
  /\ \A o \in Orgs, filters \in StatsFilterSets :
       SumOfCounts(getCollectionStats(collections, o, filters).statusCounts)
         = getCollectionStats(collections, o, filters).totalCollections

(* C18: statusCounts of getCollectionStats has an entry for each of the    *)
(* seven statuses; a status with no matching collection is present with    *)
(* the value 0.                                                            *)
C18_StatusCountsZeroFilled ==
  \A o \in Orgs, filters \in StatsFilterSets :
    LET counts == getCollectionStats(collections, o, filters).statusCounts
    IN  /\ DOMAIN counts = Statuses
        /\ \A s \in Statuses :
             (\A i \in CountMatching(collections, o, filters) :
                collections[i].status # s) => counts[s] = 0

----------------------------------------------------------------------------
(* Pagination metadata *)

(* Math.ceil(total / limitNum) for total >= 0 and limitNum >= 1 *)
MathCeil(total, limitNum) ==
  IF total % limitNum = 0 THEN total \div limitNum
  ELSE (total \div limitNum) + 1

Pagination_Floor(pageNum, limitNum, total) ==
  [page       |-> pageNum,
   limit      |-> limitNum,
   total      |-> total,
   totalPages |-> total \div limitNum,
   hasNext    |-> pageNum < total \div limitNum,
   hasPrev    |-> pageNum > 1]

(* response.pagination of the list endpoints *)
Pagination(pageNum, limitNum, total) ==
  [page       |-> pageNum,
   limit      |-> limitNum,
   total      |-> total,
   totalPages |-> MathCeil(total, limitNum),
   hasNext    |-> pageNum < MathCeil(total, limitNum),
   hasPrev    |-> pageNum > 1]

PageNumbers == 1..3

PageLimits == {1, 2, 10}

PageQuery(page, limit) ==
  Query({}, "pending", IdString(C1), IdString(U3), 0, 0, page, limit)

(* C19: the list endpoints answer totalPages = ceil(total / limit), that   *)
(* is the least number of pages of `limit` items that hold `total` items,  *)
(* hasNext = (page < totalPages) and hasPrev = (page > 1); the pages that  *)
(* carry items are exactly pages 1..totalPages.  With limit = 10 and       *)
(* total = 25, totalPages = 3 and page 3 has hasNext = false and           *)
(* hasPrev = true.                                                         *)
C19_PaginationMetadata ==
  /\ \A user \in ReadActors, page \in PageNumbers, limit \in PageLimits :
       LET r == GetAllCollections(collections, user, PageQuery(page, limit))
           p == Pagination(page, limit, r.total)
       IN  /\ p.totalPages * limit >= r.total
           /\ \A n \in 0..(p.totalPages - 1) : n * limit < r.total
           /\ p.hasNext = (page < p.totalPages)
           /\ p.hasPrev = (page > 1)
           /\ (Len(r.data) > 0) = (page <= p.totalPages)
           /\ p.hasNext =
                (Len(GetAllCollections(collections, user,
                                       PageQuery(page + 1, limit)).data) > 0)
  /\ Pagination(3, 10, 25).totalPages = 3
  /\ ~Pagination(3, 10, 25).hasNext
  /\ Pagination(3, 10, 25).hasPrev
  /\ Pagination(2, 10, 25).hasNext
  /\ ~Pagination(1, 10, 25).hasPrev

C19_Witness ==
  /\ last.op = "getAllCollections" /\ last.status = 200
  /\ \E user \in ReadActors :
       LET r == GetAllCollections(collections, user, PageQuery(1, 1))
       IN  /\ r.total = 2
           /\ Pagination(1, 1, r.total).hasNext
           /\ Pagination(2, 1, r.total).hasPrev
           /\ ~Pagination(2, 1, r.total).hasNext

----------------------------------------------------------------------------
(* Concurrent soft deletes *)

KeepsFirstDelete(before, after) ==
  \A i \in DOMAIN before :
    (before[i].isDeleted /\ after[i].isDeleted) =>
      /\ after[i].deletedAt = before[i].deletedAt
      /\ after[i].deletedBy = before[i].deletedBy

SucceedsOnLive(req, op, store) ==
  req.op = op => ~store[ById(store, req.id)].isDeleted

(* C20: when two soft deletes of the same entity run concurrently, exactly *)
(* one succeeds and the other is answered NotFound or Conflict: a delete   *)
(* is answered with success only in a step that takes the entity from not *)
(* deleted to deleted, and no step overwrites the deletedAt and deletedBy  *)
(* of an entity that is and stays deleted.                                 *)
C20_OneConcurrentDeleteWins ==
  [][ /\ KeepsFirstDelete(organizations, organizations')
      /\ KeepsFirstDelete(clients, clients')
      /\ KeepsFirstDelete(collections, collections')
      /\ \A req \in pending \ pending' :
           last'.status = 200 =>
             /\ SucceedsOnLive(req, "deleteOrganization", organizations)
             /\ SucceedsOnLive(req, "deleteClient", clients)
             /\ SucceedsOnLive(req, "deleteCollection", collections)
    ]_vars

----------------------------------------------------------------------------
(* Update beside a soft delete *)

SameContent(before, after) ==
  /\ after.status = before.status
  /\ after.notes = before.notes
  /\ after.items = before.items

(* C21: updateCollection never changes status, notes or items of a         *)
(* collection that is soft-deleted when the write is applied: no step      *)
(* changes the content of a collection that is deleted before the step,    *)
(* and an update is answered with success only if the collection was not   *)
(* deleted when its write was applied.                                     *)
C21_UpdateNeverWritesDeleted ==
  [][ /\ \A i \in DOMAIN collections :
           collections[i].isDeleted =>
             SameContent(collections[i], collections'[i])
      /\ \A req \in pending \ pending' :
           (req.op = "updateCollection" /\ last'.status = 200) =>
             ~collections[ById(collections, req.id)].isDeleted
    ]_vars

----------------------------------------------------------------------------
(* Client writes step by step: createClient and updateClient await their   *)
(* email pre-check and then their write.                                   *)

(* createClient up to the awaited Client.findOne of the pre-check *)
CreateClientBegin(clientData, rid) ==
  /\ FreeRid(rid)
  /\ Len(clients) + Cardinality({r \in pending : r.op = "createClient"})
       < MaxClients
  /\ IF \E i \in DOMAIN clients :
          /\ clients[i].email = clientData.email
          /\ clients[i].organizationId = CastObjectId(clientData.organizationId)
          /\ ~clients[i].isDeleted
       THEN /\ last' = Response("createClient",
                                createClient(clients, clientData, now))
            /\ UNCHANGED pending
       ELSE /\ pending' = pending \cup
                 {PendingRequest(rid, "createClient", IdString(NullId),
                                 clientData.createdBy, now, clientData)}
            /\ UNCHANGED last
  /\ UNCHANGED <<collections, clients, now, inflight, organizations, users>>

(* await client.save() *)
CreateClientCommit(req) ==
  /\ req.op = "createClient"
  /\ clients' =
       WriteClients(clients,
         Append(clients, NewClientDoc(clients, req.data, now)), 201).store
  /\ last' = Response("createClient",
       WriteClients(clients,
         Append(clients, NewClientDoc(clients, req.data, now)), 201))
  /\ pending' = pending \ {req}
  /\ UNCHANGED <<collections, now, inflight, organizations, users>>

(* updateClient up to the awaited Client.findOne of the pre-check *)
UpdateClientBegin(id, updateData, organizationId, rid) ==
  /\ FreeRid(rid)
  /\ IF /\ "email" \in updateData.has
        /\ organizationId # NoScope
        /\ \E i \in DOMAIN clients :
             /\ clients[i].email = updateData.email
             /\ clients[i].organizationId = CastObjectId(organizationId)
             /\ clients[i]._id # CastObjectId(id)
             /\ ~clients[i].isDeleted
       THEN /\ last' = Response("updateClient",
                         updateClient(clients, id, updateData, organizationId))
            /\ UNCHANGED pending
       ELSE /\ pending' = pending \cup
                 {PendingRequest(rid, "updateClient", id, organizationId, now,
                                 updateData)}
            /\ UNCHANGED last
  /\ UNCHANGED <<collections, clients, now, inflight, organizations, users>>

(* Client.findOneAndUpdate(query, {$set: updateData}) *)
findOneAndUpdateClient(cls, id, updateData, organizationId) ==
  IF FindClient(cls, id, organizationId, FALSE) = 0
    THEN Fail(404, "Client not found", cls)
    ELSE LET i == FindClient(cls, id, organizationId, FALSE)
         IN  WriteClients(cls,
               [cls EXCEPT
                  ![i].email = IF "email" \in updateData.has
                                 THEN updateData.email ELSE @,
                  ![i].name  = IF "name" \in updateData.has
                                 THEN updateData.name ELSE @,
                  ![i].isActive = IF "isActive" \in updateData.has
                                    THEN updateData.isActive ELSE @],
               200)

UpdateClientCommit(req) ==
  /\ req.op = "updateClient"
  /\ clients' = findOneAndUpdateClient(clients, req.id, req.data, req.by).store
  /\ last' = Response("updateClient",
                 findOneAndUpdateClient(clients, req.id, req.data, req.by))
  /\ pending' = pending \ {req}
  /\ UNCHANGED <<collections, now, inflight, organizations, users>>

(* restoreClient is one findOneAndUpdate *)
RestoreClientCall(id, organizationId) ==
  /\ clients' = restoreClient(clients, id, organizationId).store
  /\ last' = Response("restoreClient",
                      restoreClient(clients, id, organizationId))
  /\ UNCHANGED <<collections, now, inflight, organizations, users, pending>>

RacedClientBodies ==
  { ClientBody({"clientCode"}, <<"n">>, EmailA, <<"k">>, IdString(O1)),
    ClientBody({"clientCode"}, <<"n">>, EmailA, <<"l">>, IdString(O1)),
    ClientBody({"clientCode"}, <<"n">>, EmailB, <<"l">>, IdString(O1)) }

RacedClientPatches ==
  { ClientPatch({"email"}, <<"m">>, EmailA, TRUE),
    ClientPatch({"email"}, <<"m">>, EmailB, TRUE) }

NextClientRace ==
  \/ \E body \in RacedClientBodies, rid \in PendingIds :
       CreateClientBegin(body, rid)
  \/ \E req \in pending : CreateClientCommit(req)
  \/ \E id \in ClientIdParams, updateData \in RacedClientPatches,
         o \in LifecycleOrgParams, rid \in PendingIds :
       UpdateClientBegin(id, updateData, o, rid)
  \/ \E req \in pending : UpdateClientCommit(req)
  \/ \E user \in LifecycleAdmins, o \in LifecycleOrgParams,
         id \in ClientIdParams, rid \in PendingIds :
       DeleteClientBegin(user, o, id, rid)
  \/ \E req \in pending : DeleteClientCommit(req)
  \/ \E id \in ClientIdParams, o \in LifecycleOrgParams :
       RestoreClientCall(id, o)

SpecClientRace == Init /\ [][NextClientRace]_vars

(* C22: in every state reached by any interleaving of createClient,        *)
(* updateClient, deleteClient and restoreClient, no two non-deleted        *)
(* clients of one organization have the same email.                        *)
C22_LiveEmailUniquePerOrganization ==
  \A i, j \in DOMAIN clients :
    (/\ i # j
     /\ ~clients[i].isDeleted /\ ~clients[j].isDeleted
     /\ clients[i].organizationId = clients[j].organizationId)
      => clients[i].email # clients[j].email

C22_Witness ==
  /\ last.op = "createClient" /\ last.status = 500
  /\ Len(clients) = 1 /\ ~clients[1].isDeleted
  /\ clients[1].email = EmailA /\ clients[1].clientCode = <<"k">>
  /\ pending = {}

----------------------------------------------------------------------------
----------------------------------------------------------------------------
(* C24: PUT /organizations/:organizationId/clients/:id applies the patch   *)
(* to the non-deleted client with the path's id inside the path's          *)
(* organization, and answers 404 only when no such client exists.          *)
C24_PutClientTargetsPathClient ==
  \A user \in ClientUsers, o \in OrgParams, id \in ClientIdParams,
     updateData \in ClientPatches :
    LET put == PutClient(clients, user, o, id, updateData)
        i   == FindClient(clients, id, o, FALSE)
    IN  SupervisorGate(user, o) = Pass =>
          /\ put.status = 404 => i = 0
          /\ put.status = 200 =>
               /\ i # 0
               /\ put.store[i].name = updateData.name
               /\ put.store[i].email = updateData.email
               /\ \A j \in DOMAIN clients : j # i => put.store[j] = clients[j]

----------------------------------------------------------------------------
(* CollectionController.getCollectionStats: the organization of req.user   *)
(* and the four query filters are all the service receives.                *)
GetCollectionStats(colls, user, filters) ==
  getCollectionStats(colls, getOrganizationId(user), filters)

(* The role scope of getCollections *)
VisibleTo(user, c) ==
  \/ user.role \in {"admin", "manager"}
  \/ c.collectedBy = user._id
  \/ \E i \in DOMAIN user.clients : c.clientId = user.clients[i]

(* C25: for an actor who is neither admin nor manager, getCollectionStats  *)
(* counts and lists only collections the actor sees through                *)
(* getCollections: the statistics over the store equal the statistics over *)
(* the store without the collections outside the actor's scope, and the    *)
(* total equals the total of the actor's unfiltered listing.               *)
C25_StatsRespectRoleScope ==
  \A user \in ScopeActors, filters \in StatsFilterSets :
    LET visible == SelectSeq(collections, LAMBDA c : VisibleTo(user, c))
    IN  user.role \notin {"admin", "manager"} =>
          /\ GetCollectionStats(collections, user, filters)
               = GetCollectionStats(visible, user, filters)
          /\ filters.has = {} =>
               GetCollectionStats(collections, user, filters).totalCollections
                 = GetAllCollections(collections, user,
                     Query({}, "pending", IdString(C1), IdString(U3),
                           0, 0, 1, 10)).total

----------------------------------------------------------------------------
(* C26: deleteClient on a non-deleted client inside the request's          *)
(* organization succeeds and leaves the client soft-deleted, whatever      *)
(* other clients the store holds.                                          *)
C26_DeleteOfLiveClientSucceeds ==
  \A i \in DOMAIN clients :
    LET deleted == deleteClient(clients, IdString(clients[i]._id),
                                IdString(U1),
                                IdString(clients[i].organizationId), now)
    IN  ~clients[i].isDeleted =>
          /\ deleted.status = 200
          /\ deleted.store[i].isDeleted
          /\ ~deleted.store[i].isActive
          /\ deleted.store[i].deletedAt = <<now>>

----------------------------------------------------------------------------
(* C27: createOrganization with email E answers the conflict exactly when  *)
(* a non-deleted organization has E; when only soft-deleted organizations  *)
(* have E the create succeeds and stores a non-deleted, active             *)
(* organization.                                                           *)
C27_CreateOrganizationConflictsOnlyOnLiveEmail ==
  \A body \in OrganizationBodies :
    LET created == createOrganization(organizations, body, now)
        held    == \E i \in DOMAIN organizations :
                     /\ organizations[i].email = body.email
                     /\ ~organizations[i].isDeleted
    IN  /\ created.status = 400 <=> held
        /\ ~held =>
             /\ created.status = 201
             /\ Len(created.store) = Len(organizations) + 1
             /\ ~created.store[Len(created.store)].isDeleted
             /\ created.store[Len(created.store)].isActive
             /\ created.store[Len(created.store)].email = body.email

----------------------------------------------------------------------------
(* C28: the (clientCode, organizationId) uniqueness concerns only clients  *)
(* that have a clientCode: a create whose code equals that of a            *)
(* non-deleted client of the organization fails, and a create without      *)
(* clientCode is never refused on account of other clients without one.    *)
C28_ClientCodeUniqueOnlyWhenPresent ==
  \A body \in ClientBodies :
    LET created == createClient(clients, body, now)
        org     == CastObjectId(body.organizationId)
        emailUsed == \E i \in DOMAIN clients :
                       /\ clients[i].email = body.email
                       /\ clients[i].organizationId = org
        codeTaken == /\ "clientCode" \in body.has
                     /\ \E i \in DOMAIN clients :
                          /\ clients[i].clientCode = body.clientCode
                          /\ clients[i].organizationId = org
                          /\ ~clients[i].isDeleted
    IN  /\ codeTaken => created.status # 201 /\ created.store = clients
        /\ ("clientCode" \notin body.has /\ ~emailUsed) =>
             /\ created.status = 201
             /\ Len(created.store) = Len(clients) + 1

----------------------------------------------------------------------------
(* Code generation late in a busy day.  The store starts as it is after an *)
(* organization's first n collections of day 1; of these only the last is  *)
(* kept, the earlier ones have lower 4-digit codes and are never the one   *)
(* the pre('save') hook reads.                                             *)

MaxDayCodes == 4

DaySequences == {9, 99, 9998, 9999}

DayCodeIdParams == {IdString(Oid("K", n)) : n \in 1..MaxDayCodes}

LastOfDay(n) ==
  NewCollectionDoc(<<>>,
    CollectionData(User(U2, "manager", O1, <<C1, K1>>),
                   CreateBody({}, IdString(C1), 0, "pending", Undefined, <<>>),
                   1),
    CollectionCode(1, n), 1)

InitCodes ==
  /\ collections \in {<<>>} \cup {<<LastOfDay(n)>> : n \in DaySequences}
  /\ clients = <<>>
  /\ now = 1
  /\ inflight = {}
  /\ last = [op |-> "none", status |-> 0, error |-> ""]
  /\ organizations = <<>>
  /\ users = InitialUsers
  /\ pending = {}

PostCollectionOfDay(user, body) ==
  /\ Len(collections) < MaxDayCodes
  /\ collections' = PostCollection(collections, user, body, now).store
  /\ last' = Response("createCollection",
                      PostCollection(collections, user, body, now))
  /\ UNCHANGED <<clients, now, inflight, organizations, users, pending>>

NextCodes ==
  \/ Tick
  \/ \E user \in LifecycleManagers, body \in ScopeCreateBodies :
       PostCollectionOfDay(user, body)
  \/ \E user \in LifecycleManagers, id \in DayCodeIdParams :
       DeleteCollectionRequest(user, id)

SpecCodes == InitCodes /\ [][NextCodes]_vars

RECURSIVE MaxOf(_)
MaxOf(S) ==
  IF S = {} THEN 0
  ELSE LET x == CHOOSE x \in S : TRUE
       IN  IF MaxOf(S \ {x}) > x THEN MaxOf(S \ {x}) ELSE x

HighestSequence(colls, org, day) ==
  MaxOf({ParseInt(c.collectionCode.seq) : c \in SameDayCodes(colls, org, day)})

(* C29: for an organization and a day, the sequence the pre('save') hook   *)
(* computes is one more than the numerically highest sequence among all    *)
(* existing codes of that day, deleted or not: the code that is last in    *)
(* string order is the one with the highest number, also from 9999 on.     *)
C29_NextSequenceFollowsHighest ==
  \A org \in Orgs :
    HasLastCollection(collections, org, DayOf(now)) =>
      /\ ParseInt(LastCollection(collections, org,
                                 DayOf(now)).collectionCode.seq)
           = HighestSequence(collections, org, DayOf(now))
      /\ NextSequence(collections, org, DayOf(now))
           = HighestSequence(collections, org, DayOf(now)) + 1

----------------------------------------------------------------------------
(* Partial updates *)

FramePatches ==
  { Patch(has, "collected", "fragile", <<Item("shirt", 2)>>) :
      has \in SUBSET {"status", "notes", "items"} }

(* C30: updateCollection changes only those of status, notes and items     *)
(* that the patch carries; the omitted ones keep their value, every other  *)
(* field of the collection and every other collection stay as they were,   *)
(* and a refused update changes nothing.                                   *)
C30_UpdateTouchesOnlyPatchedFields ==
  \A user \in Users, id \in IdParams, updateData \in FramePatches :
    LET put == PutCollection(collections, user, id, updateData)
        i   == FindCollection(collections, id, getOrganizationId(user))
    IN  IF put.status # 200 THEN put.store = collections
        ELSE /\ i # 0
             /\ Len(put.store) = Len(collections)
             /\ put.store[i].status =
                  IF "status" \in updateData.has
                    THEN updateData.status ELSE collections[i].status
             /\ put.store[i].notes =
                  IF "notes" \in updateData.has
                    THEN updateData.notes ELSE collections[i].notes
             /\ put.store[i].items =
                  IF "items" \in updateData.has
                    THEN updateData.items ELSE collections[i].items
             /\ [put.store[i] EXCEPT !.status = collections[i].status,
                                     !.notes  = collections[i].notes,
                                     !.items  = collections[i].items]
                  = collections[i]
             /\ \A j \in DOMAIN collections :
                  j # i => put.store[j] = collections[j]

(* An update carrying status and notes but no items has just succeeded on  *)
(* one of two stored collections; the other still has its created values.  *)
C30_Witness ==
  /\ last.op = "updateCollection" /\ last.status = 200
  /\ Len(collections) = 2
  /\ \E i, j \in DOMAIN collections :
       /\ i # j
       /\ collections[i].status = "delivered"
       /\ collections[i].notes = "fragile"
       /\ ~collections[i].isDeleted
       /\ collections[j].status = "pending"
       /\ collections[j].notes # "fragile"

====
